---- MODULE Spec2Model ----
(***************************************************************************)
(* Groww_Play: four entry points around the growwapi SDK.                  *)
(*   groww_auth.py       command-line authenticator                        *)
(*   groww_smoketest.py  non-trading smoke test                            *)
(*   groww_cli.py        interactive CLI (--call, menu)                    *)
(*   groww_gradio.py     web-form explorer                                 *)
(* A behaviour is one run of one command-line program, or one session of   *)
(* the Gradio process.  Strings are sequences of symbols; the symbol " "   *)
(* is whitespace and "!" is a character outside the Base32 alphabet.  A    *)
(* credential source that is set holds its own name as its one word, so    *)
(* the value handed to the SDK shows where it was taken from.              *)
(***************************************************************************)
EXTENDS Integers, Sequences, FiniteSets, TLC

VARIABLES
    prog,       \* which entry point runs
    cfg,        \* .secrets.toml: key -> value, None when the key is missing
    env,        \* os.environ: variable -> value, None when unset
    args,       \* argparse namespace / Gradio form fields
    pc,         \* position of the run
    loc,        \* local variables of main / _get_access_token / connect
    out,        \* what the run has done so far, in order: prints, prompts, SDK calls
    exitmsg,    \* SystemExit message / handler error, None while there is none
    file,       \* content of .access_token, None while it does not exist
    token_state,\* Gradio: the gr.State that holds the access token
    result,     \* Gradio: what the last handler returned
    data,       \* Gradio: the data the SDK holds for the request looked at
    shown,      \* Gradio: the data the last handler returned for display
    INSTRUMENT_CACHE, \* Gradio: INSTRUMENT_CACHE["df"], None while nothing is cached
    fetched     \* Gradio: the tokens whose get_all_instruments call returned, in order

cache == <<INSTRUMENT_CACHE, fetched>>

web == <<token_state, result, data, shown, INSTRUMENT_CACHE, fetched>>

vars == <<prog, cfg, env, args, pc, loc, out, exitmsg, file, token_state, result,
          data, shown, INSTRUMENT_CACHE, fetched>>

----------------------------------------------------------------------------
(* Bounds of the model *)

\* at most this many credential sources (file keys, environment variables,
\* flags, form fields) are set in one run; a source set to whitespace only
\* counts twice
MaxPresent == 4
\* at most this many wrong answers to the "Choose flow" question of groww_cli
MaxAsk == 1
\* at most this many nodes (atoms, lists, dicts) in a value returned by get_quote
MaxNodes == 4
\* at most this many candles between the first and the last of a range
MaxInner == 1
\* the menu choices of groww_cli that do not end the run
MaxRounds == 2

----------------------------------------------------------------------------
(* Strings *)

None == <<"None">>
Empty == <<>>
WS == " "
BadChar == "!"

Range(s) == {s[i] : i \in 1..Len(s)}

\* Python truthiness of an Optional[str]
Truthy(v) == v # None /\ v # Empty

\* str.strip(): drop leading and trailing whitespace
RECURSIVE LStrip(_)
LStrip(s) == IF s # <<>> /\ Head(s) = WS THEN LStrip(Tail(s)) ELSE s

RECURSIVE RStrip(_)
RStrip(s) == IF s # <<>> /\ s[Len(s)] = WS THEN RStrip(SubSeq(s, 1, Len(s) - 1)) ELSE s

Strip(s) == RStrip(LStrip(s))

\* _first(*values): the first value that is not None and not blank, stripped
RECURSIVE First(_)
First(values) ==
    IF values = <<>> THEN None
    ELSE IF Head(values) = None THEN First(Tail(values))
    ELSE IF Strip(Head(values)) # Empty THEN Strip(Head(values))
    ELSE First(Tail(values))

\* pyotp.TOTP(secret).now(): a code derived from the secret; Base32 decoding
\* fails on a character outside the alphabet
Base32Ok(secret) == BadChar \notin Range(secret)
TotpCode(secret) == <<"otp">> \o secret

----------------------------------------------------------------------------
(* Inputs: the secrets file, the environment, the command line / the form *)

Progs == {"auth", "smoketest", "cli", "gradio"}
Flows == {"auto", "approval", "totp"}

\* the one word a set source holds
CfgSrc == [api_key |-> "cfg:api_key", secret |-> "cfg:secret",
           approval_api_key |-> "cfg:approval_api_key",
           approval_secret |-> "cfg:approval_secret",
           totp_token |-> "cfg:totp_token", totp |-> "cfg:totp",
           totp_secret |-> "cfg:totp_secret"]
EnvSrc == [GROWW_API_KEY |-> "env:GROWW_API_KEY",
           GROWW_API_SECRET |-> "env:GROWW_API_SECRET",
           GROWW_APPROVAL_API_KEY |-> "env:GROWW_APPROVAL_API_KEY",
           GROWW_APPROVAL_SECRET |-> "env:GROWW_APPROVAL_SECRET",
           GROWW_TOTP_TOKEN |-> "env:GROWW_TOTP_TOKEN",
           GROWW_TOTP |-> "env:GROWW_TOTP",
           GROWW_TOTP_SECRET |-> "env:GROWW_TOTP_SECRET"]
ArgSrc == [approval_api_key |-> "arg:approval_api_key",
           approval_secret |-> "arg:approval_secret",
           totp_token |-> "arg:totp_token", totp |-> "arg:totp",
           totp_secret |-> "arg:totp_secret"]

CfgKeys == DOMAIN CfgSrc
EnvVars == DOMAIN EnvSrc
ArgNames == DOMAIN ArgSrc

\* the flags each program declares (the Gradio form has all five fields)
ArgsOf(p) ==
    CASE p = "auth" -> {"totp", "totp_token"}
      [] p = "smoketest" -> {"totp", "totp_token"}
      [] p = "cli" -> {"approval_api_key", "approval_secret", "totp_token", "totp"}
      [] p = "gradio" -> ArgNames

\* the sources a program can be given; the Gradio handlers never read os.environ
SourcesOf(p) ==
    {CfgSrc[k] : k \in CfgKeys}
      \cup (IF p = "gradio" THEN {} ELSE {EnvSrc[v] : v \in EnvVars})
      \cup {ArgSrc[a] : a \in ArgsOf(p)}

\* the sources whose value may end up as a TOTP secret
SecretSources == {CfgSrc.totp_secret, EnvSrc.GROWW_TOTP_SECRET, CfgSrc.secret,
                  EnvSrc.GROWW_API_SECRET, ArgSrc.totp_secret}

\* the raw value of source src: P the sources that are set, B those of them that
\* are whitespace only, I those that are not Base32; absent is what an unset
\* source reads as (None, or "" for an empty text box)
RawValue(src, P, B, I, absent) ==
    IF src \notin P THEN absent
    ELSE IF src \in B THEN <<WS>>
    ELSE IF src \in I THEN <<src, BadChar>>
    ELSE <<WS, src, WS>>

NoResponse == [kind |-> "none", str |-> None, access_token |-> None,
               token |-> None, accessToken |-> None, jwt |-> None]

NoResult == [kind |-> "none", text |-> None]

\* no data yet
NoData == [t |-> "none", v |-> 0, keys |-> <<>>, items |-> <<>>]

LocInit == [flow |-> "auto", legacy_api_key |-> None, legacy_secret |-> None,
            approval_api_key |-> None, approval_secret |-> None,
            totp_token |-> None, totp |-> None, totp_secret |-> None,
            totp_from_cfg |-> None, use_totp |-> FALSE,
            access_token_obj |-> NoResponse, access_token |-> None,
            save_token |-> FALSE, print_token |-> FALSE]

\* of the sources that are set, none or one holds only whitespace, and none or
\* one of the secrets is not valid Base32
OneOf(S) == {{}} \cup {{x} : x \in S}

\* a run of one of the programs ps whose set sources are among U
\* ps the programs, U the sources that may be set, D what the SDK may hold
InitServed(ps, U, D) ==
    /\ prog \in ps
    /\ \E P \in {Q \in SUBSET (SourcesOf(prog) \cap U) : Cardinality(Q) <= MaxPresent} :
         \E B \in {Q \in OneOf(P) : Cardinality(P) + Cardinality(Q) <= MaxPresent} :
           \E I \in OneOf((P \cap SecretSources) \ B) :
             LET absent == IF prog = "gradio" THEN Empty ELSE None
             IN  /\ cfg = [k \in CfgKeys |-> RawValue(CfgSrc[k], P, B, I, None)]
                 /\ env = [v \in EnvVars |-> RawValue(EnvSrc[v], P, B, I, None)]
                 /\ \E f \in Flows, u \in (IF prog = "gradio" THEN BOOLEAN ELSE {TRUE}) :
                      args = [flow |-> f, use_secrets |-> u,
                              approval_api_key |->
                                  RawValue(ArgSrc.approval_api_key, P, B, I, absent),
                              approval_secret |->
                                  RawValue(ArgSrc.approval_secret, P, B, I, absent),
                              totp_token |-> RawValue(ArgSrc.totp_token, P, B, I, absent),
                              totp_secret |-> RawValue(ArgSrc.totp_secret, P, B, I, absent),
                              totp |-> RawValue(ArgSrc.totp, P, B, I, absent)]
    /\ pc = "start"
    /\ loc = LocInit
    /\ out = <<>>
    /\ exitmsg = None
    /\ file = None
    /\ token_state = Empty
    /\ result = NoResult
    /\ data \in D
    /\ shown = NoData
    /\ INSTRUMENT_CACHE = None
    /\ fetched = <<>>

InitWith(ps, U) == InitServed(ps, U, {NoData})

AllSources == UNION {SourcesOf(p) : p \in Progs}
FlagSources == {ArgSrc[a] : a \in ArgNames}

InitFor(ps) == InitWith(ps, AllSources)

----------------------------------------------------------------------------
(* What a run does, in order *)

Printed(tag, text) ==
    [ev |-> "print", tag |-> tag, api_key |-> None, secret |-> None,
     totp |-> None, text |-> text, flag |-> FALSE]

\* GrowwAPI.get_access_token(api_key=..., totp=...) / (api_key=..., secret=...)
TokenCall(flow, api_key, secret, totp) ==
    [ev |-> "get_access_token", tag |-> flow, api_key |-> api_key,
     secret |-> secret, totp |-> totp, text |-> None, flag |-> FALSE]

Note(key) == Printed("Note", <<key>>)

TokenCalls == {i \in 1..Len(out) : out[i].ev = "get_access_token"}
Notes == {i \in 1..Len(out) : out[i].ev = "print" /\ out[i].tag = "Note"}

Exit(msg) ==
    /\ pc' = "exit"
    /\ exitmsg' = <<msg>>

----------------------------------------------------------------------------
(* The SDK: what GrowwAPI.get_access_token can answer *)

LongToken == <<"e", "y", "J", "h", "b", "G", "c", "i", "O", "i", "J", "9">>
ShortToken == <<"t", "k", "n">>
\* tokens as long as, and one longer than, what _redact hides entirely
TenToken == <<"e", "y", "J", "h", "b", "G", "c", "i", "O", "i">>
ElevenToken == <<"e", "y", "J", "h", "b", "G", "c", "i", "O", "i", "J">>

StrResponse(s) == [NoResponse EXCEPT !.kind = "str", !.str = s]
DictResponse(key, s) ==
    [kind |-> "dict", str |-> None,
     access_token |-> IF key = "access_token" THEN s ELSE None,
     token |-> IF key = "token" THEN s ELSE None,
     accessToken |-> IF key = "accessToken" THEN s ELSE None,
     jwt |-> IF key = "jwt" THEN s ELSE None]

Responses == {StrResponse(LongToken), StrResponse(<<WS>>), StrResponse(Empty),
              StrResponse(TenToken), StrResponse(ElevenToken),
              DictResponse("access_token", <<WS>> \o ShortToken \o <<WS>>)}

\* a call returns one of the responses or raises
Raises == [NoResponse EXCEPT !.kind = "raise"]
Outcomes == Responses \cup {Raises}

----------------------------------------------------------------------------
(* groww_auth.py *)

AuthLegacyApiKey == First(<<cfg.api_key, env.GROWW_API_KEY>>)
AuthLegacySecret == First(<<cfg.secret, env.GROWW_API_SECRET>>)
AuthApprovalApiKeyEnvFirst ==
    First(<<cfg.approval_api_key, env.GROWW_APPROVAL_API_KEY, AuthLegacyApiKey>>)
AuthApprovalApiKey ==
    First(<<cfg.approval_api_key, AuthLegacyApiKey, env.GROWW_APPROVAL_API_KEY>>)
AuthApprovalSecret ==
    First(<<cfg.approval_secret, AuthLegacySecret, env.GROWW_APPROVAL_SECRET>>)
AuthTotpTokenFileFirst ==
    First(<<cfg.totp_token, args.totp_token, env.GROWW_TOTP_TOKEN>>)
AuthTotpTokenNoEnv == First(<<args.totp_token, cfg.totp_token>>)
AuthTotpToken == First(<<args.totp_token, cfg.totp_token, env.GROWW_TOTP_TOKEN>>)
AuthTotpFromEnv == First(<<env.GROWW_TOTP>>)
AuthTotpFromCfg == First(<<cfg.totp>>)
AuthTotpCfgFirst == First(<<args.totp, AuthTotpFromCfg, AuthTotpFromEnv>>)
AuthTotp == First(<<args.totp, AuthTotpFromEnv>>)
AuthTotpSecret == First(<<cfg.totp_secret, env.GROWW_TOTP_SECRET>>)

AuthUseTotpTokenOnly(flow, totp_token, totp, totp_secret) ==
    \/ flow = "totp"
    \/ flow = "auto" /\ Truthy(totp_token)
\* use_totp = args.flow == "totp" or (args.flow == "auto" and totp_token and (totp or totp_secret))
AuthUseTotp(flow, totp_token, totp, totp_secret) ==
    \/ flow = "totp"
    \/ flow = "auto" /\ Truthy(totp_token) /\ (Truthy(totp) \/ Truthy(totp_secret))

\* main, to the choice of the flow
AuthResolve ==
    /\ prog = "auth"
    /\ pc = "start"
    /\ loc' = [loc EXCEPT !.flow = args.flow,
                          !.legacy_api_key = AuthLegacyApiKey,
                          !.legacy_secret = AuthLegacySecret,
                          !.approval_api_key = AuthApprovalApiKey,
                          !.approval_secret = AuthApprovalSecret,
                          !.totp_token = AuthTotpToken,
                          !.totp_from_cfg = AuthTotpFromCfg,
                          !.totp = AuthTotp,
                          !.totp_secret = AuthTotpSecret,
                          !.use_totp = AuthUseTotp(args.flow, AuthTotpToken, AuthTotp,
                                                   AuthTotpSecret)]
    /\ pc' = IF loc'.use_totp THEN "totp" ELSE "approval"
    /\ UNCHANGED <<prog, cfg, env, args, out, exitmsg, file, web>>

AuthRunsApprovalAlways(use_totp) == TRUE
\* `if not use_totp:` after the TOTP branch
AuthRunsApproval(use_totp) == ~use_totp

AuthNoLegacyTokenNote(legacyToken) == <<>>
\* the print under `if not totp_token and legacy_api_key:`
AuthLegacyTokenNote(legacyToken) == IF legacyToken THEN <<Note("api_key")>> ELSE <<>>

\* main, `if use_totp:` branch
AuthTotpFlow ==
    /\ prog = "auth"
    /\ pc = "totp"
    /\ LET legacyToken == ~Truthy(loc.totp_token) /\ Truthy(loc.legacy_api_key)
           totp_token == IF legacyToken THEN loc.legacy_api_key ELSE loc.totp_token
           n1 == AuthLegacyTokenNote(legacyToken)
           legacySecret == /\ ~Truthy(loc.totp) /\ ~Truthy(loc.totp_secret)
                           /\ Truthy(loc.legacy_secret)
           totp_secret == IF legacySecret THEN loc.legacy_secret ELSE loc.totp_secret
           n2 == IF legacySecret THEN <<Note("secret")>> ELSE <<>>
           derive == ~Truthy(loc.totp) /\ Truthy(totp_secret)
           invalid == derive /\ ~Base32Ok(totp_secret)
           use_totp == ~invalid
           totp1 == IF derive /\ ~invalid THEN TotpCode(totp_secret) ELSE loc.totp
           n3 == IF invalid THEN <<Note("fallback")>> ELSE <<>>
           fromCfg == use_totp /\ ~Truthy(totp1) /\ Truthy(loc.totp_from_cfg)
           totp == IF fromCfg THEN loc.totp_from_cfg ELSE totp1
           n4 == IF fromCfg THEN <<Note("totp")>> ELSE <<>>
           locals == [loc EXCEPT !.totp_token = totp_token, !.totp_secret = totp_secret,
                                 !.totp = totp, !.use_totp = use_totp]
       IN  IF ~Truthy(totp_token)
           THEN /\ Exit("Missing totp_token")
                /\ out' = out \o n1
                /\ loc' = [loc EXCEPT !.totp_token = totp_token]
           ELSE IF invalid /\ loc.flow # "auto"
           THEN /\ Exit("Invalid totp_secret")
                /\ out' = out \o n1 \o n2
                /\ loc' = [loc EXCEPT !.totp_token = totp_token,
                                      !.totp_secret = totp_secret]
           ELSE IF use_totp /\ ~Truthy(totp)
           THEN /\ Exit("Missing totp/totp_secret")
                /\ out' = out \o n1 \o n2 \o n3 \o n4
                /\ loc' = locals
           ELSE IF use_totp
           THEN /\ out' = out \o n1 \o n2 \o n3 \o n4
                            \o <<TokenCall("totp", totp_token, None, totp)>>
                /\ pc' = "calling"
                /\ loc' = locals
                /\ exitmsg' = exitmsg
           ELSE /\ out' = out \o n1 \o n2 \o n3 \o n4
                /\ loc' = [locals EXCEPT !.access_token_obj = NoResponse]
                /\ pc' = IF AuthRunsApproval(use_totp) THEN "approval" ELSE "token"
                /\ exitmsg' = exitmsg
    /\ UNCHANGED <<prog, cfg, env, args, file, web>>

\* main, `if not use_totp:` branch
AuthApprovalFlow ==
    /\ prog = "auth"
    /\ pc = "approval"
    /\ IF ~Truthy(loc.approval_api_key)
       THEN /\ Exit("Missing approval_api_key")
            /\ UNCHANGED <<out, loc>>
       ELSE IF ~Truthy(loc.approval_secret)
       THEN /\ Exit("Missing approval_secret")
            /\ UNCHANGED <<out, loc>>
       ELSE /\ out' = out \o <<TokenCall("approval", loc.approval_api_key,
                                         loc.approval_secret, None)>>
            /\ pc' = "calling"
            /\ loc' = loc
            /\ exitmsg' = exitmsg
    /\ UNCHANGED <<prog, cfg, env, args, file, web>>

\* GrowwAPI.get_access_token returns or raises; on a return main goes on after
\* the branch that called
AuthTokenReturn ==
    /\ prog = "auth"
    /\ pc = "calling"
    /\ \E r \in Outcomes :
         IF r = Raises
         THEN /\ pc' = "raised"
              /\ loc' = loc
         ELSE /\ pc' = IF out[Len(out)].tag = "totp" /\ AuthRunsApproval(loc.use_totp)
                       THEN "approval" ELSE "token"
              /\ loc' = [loc EXCEPT !.access_token_obj = r]
    /\ UNCHANGED <<prog, cfg, env, args, out, exitmsg, file, web>>

\* str(value) of an object that is not a string
Repr(value) ==
    IF value.kind = "dict" THEN <<"{", "...", "}">> ELSE <<"N", "o", "n", "e">>

\* Python `a or b`
Or(a, b) == IF Truthy(a) THEN a ELSE b

NormalizeAccessToken(value) ==
    IF value.kind = "str" THEN value.str
    ELSE LET candidate == Or(Or(Or(value.access_token, value.token), value.accessToken),
                             value.jwt)
         IN  IF value.kind = "dict" /\ candidate # None /\ Strip(candidate) # Empty
             THEN Strip(candidate)
             ELSE Strip(Repr(value))

KeepStart == 6
KeepEnd == 4

RedactBelow(value) ==
    IF Len(value) < KeepStart + KeepEnd THEN <<"*", "*", "*">>
    ELSE SubSeq(value, 1, KeepStart) \o <<".", ".", ".">>
           \o SubSeq(value, Len(value) - KeepEnd + 1, Len(value))
Redact(value) ==
    IF Len(value) <= KeepStart + KeepEnd THEN <<"*", "*", "*">>
    ELSE SubSeq(value, 1, KeepStart) \o <<".", ".", ".">>
           \o SubSeq(value, Len(value) - KeepEnd + 1, Len(value))

\* GrowwAPI(access_token)
NewClient(token) ==
    [ev |-> "GrowwAPI", tag |-> "new", api_key |-> None, secret |-> None,
     totp |-> None, text |-> token, flag |-> FALSE]

\* Path.write_text(...)
Written(name, content) ==
    [ev |-> "write_text", tag |-> name, api_key |-> None, secret |-> None,
     totp |-> None, text |-> content, flag |-> FALSE]

AuthSavedAsIs(save_token, access_token) ==
    IF save_token THEN <<Written(".access_token", access_token \o <<"\n">>)>> ELSE <<>>
\* `if args.save_token:` the write of .access_token
AuthSaved(save_token, access_token) ==
    IF save_token THEN <<Written(".access_token", Strip(access_token) \o <<"\n">>)>>
    ELSE <<>>

AuthEmptyNever(access_token) == FALSE
\* `if not access_token:`
AuthEmpty(access_token) == ~Truthy(access_token)

\* main, from the response to the end
AuthFinish ==
    /\ prog = "auth"
    /\ pc = "token"
    /\ LET access_token == NormalizeAccessToken(loc.access_token_obj)
       IN  IF AuthEmpty(access_token)
           THEN /\ Exit("Got an empty access token")
                /\ loc' = [loc EXCEPT !.access_token = access_token]
                /\ UNCHANGED <<out, file>>
           ELSE \E save_token \in BOOLEAN, print_token \in BOOLEAN :
                  /\ loc' = [loc EXCEPT !.access_token = access_token,
                                        !.save_token = save_token,
                                        !.print_token = print_token]
                  /\ LET saved == AuthSaved(save_token, access_token)
                     IN  /\ file' = IF saved # <<>> THEN saved[1].text ELSE file
                         /\ out' = out \o <<NewClient(access_token)>> \o saved
                                   \o <<IF print_token THEN Printed("token", access_token)
                                        ELSE Printed("Access token",
                                                     Redact(access_token))>>
                  /\ pc' = "done"
                  /\ exitmsg' = exitmsg
    /\ UNCHANGED <<prog, cfg, env, args, web>>

NextAuthCred == AuthResolve \/ AuthTotpFlow \/ AuthApprovalFlow

NextAuth == NextAuthCred \/ AuthTokenReturn \/ AuthFinish

SpecAuth == InitFor({"auth"}) /\ [][NextAuth]_vars

----------------------------------------------------------------------------
(* groww_smoketest.py *)

\* main: `if args.totp_token: os.environ["GROWW_TOTP_TOKEN"] = args.totp_token`
SmokeEnviron ==
    IF Truthy(args.totp_token) THEN [env EXCEPT !.GROWW_TOTP_TOKEN = args.totp_token]
    ELSE env

SmokeLegacyApiKey(e) == First(<<cfg.api_key, e.GROWW_API_KEY>>)
SmokeLegacySecret(e) == First(<<cfg.secret, e.GROWW_API_SECRET>>)
SmokeApprovalApiKey(e) ==
    First(<<cfg.approval_api_key, SmokeLegacyApiKey(e), e.GROWW_APPROVAL_API_KEY>>)
SmokeApprovalSecret(e) ==
    First(<<cfg.approval_secret, SmokeLegacySecret(e), e.GROWW_APPROVAL_SECRET>>)
SmokeTotpToken(e) == First(<<cfg.totp_token, e.GROWW_TOTP_TOKEN>>)
SmokeTotpFromEnv(e) == First(<<e.GROWW_TOTP>>)
SmokeTotpFromCfg == First(<<cfg.totp>>)
SmokeTotp(e) == First(<<args.totp, SmokeTotpFromEnv(e)>>)
SmokeTotpSecret(e) == First(<<cfg.totp_secret, e.GROWW_TOTP_SECRET>>)

SmokeUseTotp(flow, totp_token, totp, totp_secret) ==
    \/ flow = "totp"
    \/ flow = "auto" /\ Truthy(totp_token) /\ (Truthy(totp) \/ Truthy(totp_secret))

\* main up to the call of _get_access_token, and _get_access_token to the choice
\* of the flow
SmokeResolve ==
    /\ prog = "smoketest"
    /\ pc = "start"
    /\ env' = SmokeEnviron
    /\ loc' = [loc EXCEPT !.flow = args.flow,
                          !.legacy_api_key = SmokeLegacyApiKey(env'),
                          !.legacy_secret = SmokeLegacySecret(env'),
                          !.approval_api_key = SmokeApprovalApiKey(env'),
                          !.approval_secret = SmokeApprovalSecret(env'),
                          !.totp_token = SmokeTotpToken(env'),
                          !.totp_from_cfg = SmokeTotpFromCfg,
                          !.totp = SmokeTotp(env'),
                          !.totp_secret = SmokeTotpSecret(env'),
                          !.use_totp = SmokeUseTotp(args.flow, SmokeTotpToken(env'),
                                                    SmokeTotp(env'), SmokeTotpSecret(env'))]
    /\ pc' = IF loc'.use_totp THEN "totp" ELSE "approval"
    /\ UNCHANGED <<prog, cfg, args, out, exitmsg, file, web>>

SmokeSkipsApproval(use_totp) == FALSE
\* `if not use_totp:` after the TOTP branch
SmokeRunsApproval(use_totp) == ~use_totp

\* _get_access_token, `if use_totp:` branch
SmokeTotpFlow ==
    /\ prog = "smoketest"
    /\ pc = "totp"
    /\ LET legacyToken == ~Truthy(loc.totp_token) /\ Truthy(loc.legacy_api_key)
           totp_token == IF legacyToken THEN loc.legacy_api_key ELSE loc.totp_token
           n1 == IF legacyToken THEN <<Note("api_key")>> ELSE <<>>
           noCode == ~Truthy(loc.totp) /\ ~Truthy(loc.totp_secret)
           legacySecret == noCode /\ Truthy(loc.legacy_secret)
           totp_secret == IF legacySecret THEN loc.legacy_secret
                          ELSE IF noCode THEN None
                          ELSE loc.totp_secret
           n2 == IF legacySecret THEN <<Note("secret")>> ELSE <<>>
           derive == ~Truthy(loc.totp) /\ Truthy(totp_secret)
           invalid == derive /\ ~Base32Ok(totp_secret)
           use_totp == ~invalid
           totp1 == IF derive /\ ~invalid THEN TotpCode(totp_secret) ELSE loc.totp
           n3 == IF invalid THEN <<Note("fallback")>> ELSE <<>>
           fromCfg == use_totp /\ ~Truthy(totp1) /\ Truthy(loc.totp_from_cfg)
           totp == IF fromCfg THEN loc.totp_from_cfg ELSE totp1
           n4 == IF fromCfg THEN <<Note("totp")>> ELSE <<>>
           locals == [loc EXCEPT !.totp_token = totp_token, !.totp_secret = totp_secret,
                                 !.totp = totp, !.use_totp = use_totp]
       IN  IF ~Truthy(totp_token)
           THEN /\ Exit("Missing totp_token")
                /\ out' = out \o n1
                /\ loc' = [loc EXCEPT !.totp_token = totp_token]
           ELSE IF invalid /\ loc.flow # "auto"
           THEN /\ Exit("Invalid totp_secret")
                /\ out' = out \o n1 \o n2
                /\ loc' = [loc EXCEPT !.totp_token = totp_token,
                                      !.totp_secret = totp_secret]
           ELSE IF use_totp /\ ~Truthy(totp)
           THEN /\ Exit("Missing totp/totp_secret")
                /\ out' = out \o n1 \o n2 \o n3 \o n4
                /\ loc' = locals
           ELSE IF use_totp
           THEN /\ out' = out \o n1 \o n2 \o n3 \o n4
                            \o <<TokenCall("totp", totp_token, None, totp)>>
                /\ pc' = "calling"
                /\ loc' = locals
                /\ exitmsg' = exitmsg
           ELSE /\ out' = out \o n1 \o n2 \o n3 \o n4
                /\ loc' = [locals EXCEPT !.access_token_obj = NoResponse]
                /\ pc' = IF SmokeRunsApproval(use_totp) THEN "approval" ELSE "token"
                /\ exitmsg' = exitmsg
    /\ UNCHANGED <<prog, cfg, env, args, file, web>>

\* _get_access_token, `if not use_totp:` branch
SmokeApprovalFlow ==
    /\ prog = "smoketest"
    /\ pc = "approval"
    /\ IF ~Truthy(loc.approval_api_key) \/ ~Truthy(loc.approval_secret)
       THEN /\ Exit("Missing approval credentials")
            /\ UNCHANGED <<out, loc>>
       ELSE /\ out' = out \o <<TokenCall("approval", loc.approval_api_key,
                                         loc.approval_secret, None)>>
            /\ pc' = "calling"
            /\ loc' = loc
            /\ exitmsg' = exitmsg
    /\ UNCHANGED <<prog, cfg, env, args, file, web>>

SmokeTokenReturn ==
    /\ prog = "smoketest"
    /\ pc = "calling"
    /\ \E r \in Outcomes :
         IF r = Raises
         THEN /\ pc' = "raised"
              /\ loc' = loc
         ELSE /\ pc' = IF out[Len(out)].tag = "totp" /\ SmokeRunsApproval(loc.use_totp)
                       THEN "approval" ELSE "token"
              /\ loc' = [loc EXCEPT !.access_token_obj = r]
    /\ UNCHANGED <<prog, cfg, env, args, out, exitmsg, file, web>>

\* the end of _get_access_token: the token of the response
SmokeNormalize(token_obj) ==
    IF token_obj.kind = "str" THEN Strip(token_obj.str)
    ELSE LET candidate == Or(Or(Or(token_obj.access_token, token_obj.token),
                                token_obj.accessToken), token_obj.jwt)
         IN  IF token_obj.kind = "dict" /\ candidate # None /\ Strip(candidate) # Empty
             THEN Strip(candidate)
             ELSE Strip(Repr(token_obj))

\* groww.<method>(...)
ClientCall(method_name) ==
    [ev |-> "client", tag |-> "method", api_key |-> None, secret |-> None,
     totp |-> None, text |-> method_name, flag |-> FALSE]

SmokeCallsSwapped == <<ClientCall(<<"get_holdings_for_user">>),
                       ClientCall(<<"get_user_profile">>)>>
\* the client calls of main, in program order
SmokeCalls == <<ClientCall(<<"get_user_profile">>),
                ClientCall(<<"get_holdings_for_user">>)>>

SmokeOk == "Smoke test OK (no orders placed)."

\* main, from the token to the end: the client, the two calls, the three prints
SmokeFinish ==
    /\ prog = "smoketest"
    /\ pc = "token"
    /\ LET access_token == SmokeNormalize(loc.access_token_obj)
           made == out \o <<NewClient(access_token)>>
       IN  /\ loc' = [loc EXCEPT !.access_token = access_token]
           /\ \/ /\ out' = made \o <<SmokeCalls[1]>>
                 /\ pc' = "raised"
              \/ /\ out' = made \o <<SmokeCalls[1], SmokeCalls[2]>>
                 /\ pc' = "raised"
              \/ /\ out' = made \o <<SmokeCalls[1], SmokeCalls[2],
                                     Printed(SmokeOk, None),
                                     Printed("get_user_profile:", None),
                                     Printed("get_holdings_for_user:", None)>>
                 /\ pc' = "done"
    /\ UNCHANGED <<prog, cfg, env, args, exitmsg, file, web>>

NextSmokeCred == SmokeResolve \/ SmokeTotpFlow \/ SmokeApprovalFlow

NextSmoke == NextSmokeCred \/ SmokeTokenReturn \/ SmokeFinish

SpecSmoke == InitFor({"smoketest"}) /\ [][NextSmoke]_vars

----------------------------------------------------------------------------
(* groww_cli.py *)

\* input(prompt) / getpass(prompt): the question and what the user typed
Asked(prompt, answer) ==
    [ev |-> "input", tag |-> prompt, api_key |-> None, secret |-> None,
     totp |-> None, text |-> answer, flag |-> FALSE]

Asks(prompt) == {i \in 1..Len(out) : out[i].ev = "input" /\ out[i].tag = prompt}

CliApprovalApiKey ==
    First(<<args.approval_api_key, cfg.approval_api_key, cfg.api_key,
            env.GROWW_APPROVAL_API_KEY, env.GROWW_API_KEY>>)
CliApprovalSecret ==
    First(<<args.approval_secret, cfg.approval_secret, cfg.secret,
            env.GROWW_APPROVAL_SECRET, env.GROWW_API_SECRET>>)
CliTotpToken == First(<<args.totp_token, cfg.totp_token, env.GROWW_TOTP_TOKEN>>)
CliTotpSecret == First(<<cfg.totp_secret, env.GROWW_TOTP_SECRET>>)
CliTotpFlagOnly == First(<<args.totp>>)
CliTotp == First(<<args.totp, env.GROWW_TOTP>>)

CliAvailableApprovalKeyOnly(approval_api_key, approval_secret) ==
    Truthy(approval_api_key)
\* available_approval = bool(approval_api_key and approval_secret)
CliAvailableApproval(approval_api_key, approval_secret) ==
    Truthy(approval_api_key) /\ Truthy(approval_secret)
CliAvailableTotp(totp_token, totp, totp_secret) ==
    Truthy(totp_token) /\ (Truthy(totp) \/ Truthy(totp_secret))

\* _get_access_token, to `flow = args.flow`
CliResolve ==
    /\ prog = "cli"
    /\ pc = "start"
    /\ loc' = [loc EXCEPT !.flow = args.flow,
                          !.approval_api_key = CliApprovalApiKey,
                          !.approval_secret = CliApprovalSecret,
                          !.totp_token = CliTotpToken,
                          !.totp_secret = CliTotpSecret,
                          !.totp = CliTotp]
    /\ pc' = IF args.flow = "auto" THEN "choose" ELSE args.flow
    /\ UNCHANGED <<prog, cfg, env, args, out, exitmsg, file, web>>

\* what the user may type at the "Choose flow" question
FlowAnswers == {<<"1">>, <<"approval">>, <<WS, "2">>, <<"totp">>, <<"3">>}

\* _choose_flow: the flow of a complete credential set, else one round of the
\* question
ChooseFlow ==
    /\ prog = "cli"
    /\ pc = "choose"
    /\ IF CliAvailableApproval(loc.approval_api_key, loc.approval_secret)
       THEN /\ pc' = "approval"
            /\ loc' = [loc EXCEPT !.flow = "approval"]
            /\ out' = out
       ELSE IF CliAvailableTotp(loc.totp_token, loc.totp, loc.totp_secret)
       THEN /\ pc' = "totp"
            /\ loc' = [loc EXCEPT !.flow = "totp"]
            /\ out' = out
       ELSE \E answer \in FlowAnswers :
              LET choice == Strip(answer)
              IN  IF choice \in {<<"1">>, <<"approval">>}
                  THEN /\ pc' = "approval"
                       /\ loc' = [loc EXCEPT !.flow = "approval"]
                       /\ out' = out \o <<Asked("Choose flow", answer)>>
                  ELSE IF choice \in {<<"2">>, <<"totp">>}
                  THEN /\ pc' = "totp"
                       /\ loc' = [loc EXCEPT !.flow = "totp"]
                       /\ out' = out \o <<Asked("Choose flow", answer)>>
                  ELSE /\ Cardinality(Asks("Choose flow")) < MaxAsk
                       /\ pc' = "choose"
                       /\ loc' = loc
                       /\ out' = out \o <<Asked("Choose flow", answer),
                                          Printed("Please enter 1 or 2.", None)>>
    /\ UNCHANGED <<prog, cfg, env, args, exitmsg, file, web>>

\* what the user may type at a getpass question for the credential named what
Typed(what) == {Empty, <<"typed:" , what>>}

\* _get_access_token, `if flow == "approval":` branch; main then builds the client
CliApprovalFlow ==
    /\ prog = "cli"
    /\ pc = "approval"
    /\ \E typedKey \in Typed("approval_api_key"), typedSecret \in Typed("approval_secret") :
         LET askKey == ~Truthy(loc.approval_api_key)
             askSecret == ~Truthy(loc.approval_secret)
             approval_api_key == IF askKey THEN typedKey ELSE loc.approval_api_key
             approval_secret == IF askSecret THEN typedSecret ELSE loc.approval_secret
             q1 == IF askKey THEN <<Asked("approval api_key", typedKey)>> ELSE <<>>
             q2 == IF askSecret THEN <<Asked("approval secret", typedSecret)>> ELSE <<>>
             called == out \o q1 \o q2
                         \o <<TokenCall("approval", approval_api_key, approval_secret, None)>>
             locals == [loc EXCEPT !.approval_api_key = approval_api_key,
                                   !.approval_secret = approval_secret]
         IN  /\ pc' = "calling"
             /\ loc' = locals
             /\ out' = called
    /\ UNCHANGED <<prog, cfg, env, args, exitmsg, file, web>>

\* _get_access_token, the TOTP branch; main then builds the client
CliTotpFlow ==
    /\ prog = "cli"
    /\ pc = "totp"
    /\ \E typedToken \in Typed("totp_token"), typedCode \in Typed("otp") :
         LET askToken == ~Truthy(loc.totp_token)
             totp_token == IF askToken THEN typedToken ELSE loc.totp_token
             q1 == IF askToken THEN <<Asked("totp_token", typedToken)>> ELSE <<>>
             derive == ~Truthy(loc.totp) /\ Truthy(loc.totp_secret)
             invalid == derive /\ ~Base32Ok(loc.totp_secret)
             totp1 == IF derive THEN TotpCode(loc.totp_secret) ELSE loc.totp
             askCode == ~Truthy(totp1)
             totp == IF askCode THEN typedCode ELSE totp1
             q2 == IF askCode THEN <<Asked("current 6-digit OTP", typedCode)>> ELSE <<>>
             called == out \o q1 \o q2 \o <<TokenCall("totp", totp_token, None, totp)>>
             locals == [loc EXCEPT !.totp_token = totp_token, !.totp = totp]
         IN  IF invalid
             THEN /\ Exit("Invalid TOTP secret")
                  /\ loc' = [loc EXCEPT !.totp_token = totp_token]
                  /\ out' = out \o q1
             ELSE /\ pc' = "calling"
                  /\ loc' = locals
                  /\ out' = called
                  /\ exitmsg' = exitmsg
    /\ UNCHANGED <<prog, cfg, env, args, file, web>>

\* GrowwAPI.get_access_token returns or raises; main builds the client from
\* whatever was returned
CliTokenReturn ==
    /\ prog = "cli"
    /\ pc = "calling"
    /\ \E r \in Outcomes :
         IF r = Raises
         THEN /\ pc' = "raised"
              /\ loc' = loc
              /\ out' = out
         ELSE /\ pc' = "client"
              /\ loc' = [loc EXCEPT !.access_token_obj = r]
              /\ out' = out \o <<NewClient(None)>>
    /\ UNCHANGED <<prog, cfg, env, args, exitmsg, file, web>>

NextCliCred == CliResolve \/ ChooseFlow \/ CliApprovalFlow \/ CliTotpFlow

\* _get_access_token up to the call of GrowwAPI.get_access_token
SpecCliCred == InitFor({"cli"}) /\ [][NextCliCred]_vars

NextCliAuth == NextCliCred \/ CliTokenReturn

SpecCliAuth == InitFor({"cli"}) /\ [][NextCliAuth]_vars

----------------------------------------------------------------------------
(* The SDK client: the attributes of a GrowwAPI object *)

TradingMethods == {<<"place_order">>, <<"modify_order">>, <<"cancel_order">>,
                   <<"create_smart_order">>, <<"modify_smart_order">>,
                   <<"cancel_smart_order">>}
ReadMethods == {<<"get_quote">>, <<"get_user_profile">>, <<"get_holdings_for_user">>}
PrivateMethods == {<<"_", "request">>}

\* hasattr(groww, name)
HasAttr(name) == name \in TradingMethods \cup ReadMethods \cup PrivateMethods

\* what the user may give as a method name
MethodInputs == TradingMethods
                  \cup {<<WS, "place_order", WS>>, <<"get_quote">>, <<"_", "request">>,
                        <<"no_such_method">>}

\* json.loads of the texts the user may give as --args / --kwargs
JsonKind(value) ==
    IF value = <<"[]">> THEN "list" ELSE IF value = <<"{}">> THEN "dict" ELSE "invalid"

\* the (args, kwargs) texts tried, with unset standing for a text not given
JsonInputs(unset) == {<<unset, unset>>, <<(<<"[]">>), (<<"{}">>)>>, <<(<<"[">>), unset>>,
                      <<(<<"{}">>), unset>>, <<unset, (<<"[]">>)>>}

\* the calls of client methods made so far, as positions of out
ClientCalls == {i \in 1..Len(out) : out[i].ev = "client"}
TradingCalls == {i \in ClientCalls : out[i].text \in TradingMethods}

----------------------------------------------------------------------------
(* groww_cli.py, --call *)

\* _confirm_if_trading: the six method names that need the typed confirmation
CliTradingMethods == {<<"place_order">>, <<"modify_order">>, <<"cancel_order">>,
                      <<"create_smart_order">>, <<"modify_smart_order">>,
                      <<"cancel_smart_order">>}

CliConfirmedAnyCase(typed) == Strip(typed) \in {<<"PLACE">>, <<"place">>}
\* `if confirm != "PLACE"` on the stripped input
CliConfirmed(typed) == Strip(typed) = <<"PLACE">>

\* what the user may type at the confirmation
ConfirmInputs == {<<"PLACE">>, <<WS, "PLACE", WS>>, <<"place">>, <<"PLACE", WS, "it">>,
                  <<"y">>, Empty}

ConfirmQuestion == "Trading action requested. Type PLACE to continue: "

\* _parse_json(value, default=...)
CliJsonKind(value, default) == IF ~Truthy(value) THEN default ELSE JsonKind(value)

\* main, `if args.call:` branch, from the JSON texts on
CliCallBody(method_name, asked) ==
    \E json \in JsonInputs(None) :
      IF CliJsonKind(json[1], "list") = "invalid" \/ CliJsonKind(json[2], "dict") = "invalid"
      THEN /\ Exit("Invalid JSON")
           /\ out' = out \o asked
      ELSE IF CliJsonKind(json[1], "list") # "list"
      THEN /\ Exit("--args must be a JSON array")
           /\ out' = out \o asked
      ELSE IF CliJsonKind(json[2], "dict") # "dict"
      THEN /\ Exit("--kwargs must be a JSON object")
           /\ out' = out \o asked
      ELSE \E returns \in BOOLEAN :
             IF returns
             THEN /\ out' = out \o asked \o <<ClientCall(method_name),
                                              Printed("response", None)>>
                  /\ pc' = "done"
                  /\ exitmsg' = exitmsg
             ELSE /\ out' = out \o asked \o <<ClientCall(method_name)>>
                  /\ pc' = "raised"
                  /\ exitmsg' = exitmsg

\* main, `if args.call:` branch
CliCall ==
    /\ prog = "cli"
    /\ pc = "client"
    /\ \E call \in MethodInputs :
         LET method_name == Strip(call)
         IN  IF method_name[1] = "_" \/ ~HasAttr(method_name)
             THEN /\ Exit("Unknown method")
                  /\ out' = out
             ELSE IF method_name \in CliTradingMethods
             THEN \E typed \in ConfirmInputs :
                    IF ~CliConfirmed(typed)
                    THEN /\ Exit("Aborted.")
                         /\ out' = out \o <<Asked(ConfirmQuestion, typed)>>
                    ELSE CliCallBody(method_name, <<Asked(ConfirmQuestion, typed)>>)
             ELSE CliCallBody(method_name, <<>>)
    /\ UNCHANGED <<prog, cfg, env, args, loc, file, web>>

NextCli == NextCliAuth \/ CliCall

\* the credentials come from the flags or the prompts
SpecCli == InitWith({"cli"}, FlagSources) /\ [][NextCli]_vars

----------------------------------------------------------------------------
(* groww_cli.py, the menu *)

\* str.lower() of what is typed at the menu
MenuLower(s) ==
    [i \in 1..Len(s) |-> IF s[i] = "Q" THEN "q" ELSE IF s[i] = "EXIT" THEN "exit" ELSE s[i]]

\* what the user may type at "> "
MenuInputs == {<<WS, "Q">>, <<"quit">>, <<"EXIT">>, <<"1">>, <<"2">>, <<"3">>, <<"4">>,
               <<"5">>, <<"6">>, <<"7">>, <<"8">>, <<"9">>, <<"place_order">>, Empty}

MenuQuitsOnQ(choice) == choice = <<"q">>
\* `if choice in {"q", "quit", "exit"}: return 0`
MenuQuits(choice) == choice \in {<<"q">>, <<"quit">>, <<"exit">>}

\* the questions a choice asks before its SDK call
MenuQuestions(choice) ==
    CASE choice = <<"3">> -> <<"segment (blank for all): ">>
      [] choice = <<"4">> -> <<"trading_symbol (e.g. WIPRO): ",
                               "exchange [NSE/BSE] (default NSE): ",
                               "segment [CASH/FNO] (default CASH): ">>
      [] choice = <<"5">> -> <<"symbols comma-separated (e.g. WIPRO,RELIANCE): ",
                               "exchange [NSE/BSE] (default NSE): ",
                               "segment [CASH/FNO] (default CASH): ">>
      [] choice = <<"6">> -> <<"holding symbol / ISIN / name (partial ok): ">>
      [] choice = <<"8">> -> <<"search (name/symbol/isin): ",
                               "exchange filter (blank for any): ",
                               "segment filter (blank for any): ",
                               "max results (default 25): ">>
      [] OTHER -> <<>>

\* the SDK method a choice calls, none for the others
MenuMethod(choice) ==
    CASE choice = <<"1">> -> <<<<"get_user_profile">>>>
      [] choice = <<"2">> -> <<<<"get_holdings_for_user">>>>
      [] choice = <<"3">> -> <<<<"get_positions_for_user">>>>
      [] choice = <<"4">> -> <<<<"get_quote">>>>
      [] choice = <<"5">> -> <<<<"get_ltp">>>>
      [] choice = <<"6">> -> <<<<"get_holdings_for_user">>>>
      [] choice = <<"8">> -> <<<<"get_all_instruments">>>>
      [] OTHER -> <<>>

MenuPrompt == "> "

\* main, one round of `while True:`; the answers to a choice's own questions
\* are left blank
CliMenu ==
    /\ prog = "cli"
    /\ pc \in {"client", "menu"}
    /\ \E typed \in MenuInputs, returns \in BOOLEAN :
         LET choice == MenuLower(Strip(typed))
             shown_ == out \o <<Printed("menu", None), Asked(MenuPrompt, typed)>>
             questions == MenuQuestions(choice)
             asked == [k \in 1..Len(questions) |-> Asked(questions[k], Empty)]
             methods == MenuMethod(choice)
         IN  IF MenuQuits(choice)
             THEN /\ out' = shown_
                  /\ pc' = "done"
             ELSE /\ Cardinality(Asks(MenuPrompt)) < MaxRounds
                  /\ IF methods # <<>>
                     THEN IF returns
                          THEN /\ out' = shown_ \o asked
                                           \o <<ClientCall(methods[1]),
                                                Printed("response", None)>>
                               /\ pc' = "menu"
                          ELSE /\ out' = shown_ \o asked \o <<ClientCall(methods[1])>>
                               /\ pc' = "raised"
                     ELSE IF choice = <<"7">>
                     THEN /\ out' = shown_ \o <<Printed("api methods", None)>>
                          /\ pc' = "menu"
                     ELSE /\ out' = shown_ \o <<Printed("Invalid choice.", None)>>
                          /\ pc' = "menu"
    /\ UNCHANGED <<prog, cfg, env, args, loc, exitmsg, file, web>>

\* the approval flow of _get_access_token, then the menu
NextMenu == CliResolve \/ CliApprovalFlow \/ CliTokenReturn \/ CliMenu

\* a run without --call, the approval credentials given as flags
InitMenu ==
    /\ InitWith({"cli"}, {ArgSrc.approval_api_key, ArgSrc.approval_secret})
    /\ args.flow = "approval"
    /\ args.approval_api_key = <<WS, ArgSrc.approval_api_key, WS>>
    /\ args.approval_secret = <<WS, ArgSrc.approval_secret, WS>>

SpecMenu == InitMenu /\ [][NextMenu]_vars

----------------------------------------------------------------------------
(* groww_gradio.py *)

\* a handler starts: out holds what the handler invocation under way has done
Handler(name, text, flag) ==
    [ev |-> "handler", tag |-> name, api_key |-> None, secret |-> None,
     totp |-> None, text |-> text, flag |-> flag]

ErrorResult(msg) == [kind |-> "error", text |-> <<msg>>]
ValueResult == [kind |-> "value", text |-> None]

\* _load_cfg() if use_secrets else {}
GradioCfg == IF args.use_secrets THEN cfg ELSE [k \in CfgKeys |-> None]

GradioApprovalApiKey ==
    First(<<args.approval_api_key, GradioCfg.approval_api_key, GradioCfg.api_key>>)
GradioApprovalSecret ==
    First(<<args.approval_secret, GradioCfg.approval_secret, GradioCfg.secret>>)
GradioTotpToken == First(<<args.totp_token, GradioCfg.totp_token>>)
GradioTotpSecret == First(<<args.totp_secret, GradioCfg.totp_secret>>)
GradioTotp == First(<<args.totp, GradioCfg.totp>>)

\* `if flow == "auto": flow = "approval" if (approval_api_key and approval_secret) else "totp"`
GradioFlow(flow, approval_api_key, approval_secret) ==
    IF flow # "auto" THEN flow
    ELSE IF Truthy(approval_api_key) /\ Truthy(approval_secret) THEN "approval"
    ELSE "totp"

NormalizeToken(value) ==
    IF value.kind = "str" THEN Strip(value.str)
    ELSE LET candidate == Or(Or(Or(value.access_token, value.token), value.accessToken),
                             value.jwt)
         IN  IF value.kind = "dict" /\ candidate # None /\ Strip(candidate) # Empty
             THEN Strip(candidate)
             ELSE Strip(Repr(value))

\* the token as the status line shows it
GradioRedacted(token) ==
    IF Len(token) > 12
    THEN SubSeq(token, 1, 6) \o <<".", ".", ".">> \o SubSeq(token, Len(token) - 3, Len(token))
    ELSE <<"*", "*", "*">>

\* connect(flow, use_secrets, approval_api_key, approval_secret, totp_token,
\* totp_secret, totp) -> token_state, status
connect ==
    /\ prog = "gradio"
    /\ LET approval_api_key == GradioApprovalApiKey
           approval_secret == GradioApprovalSecret
           totp_token == GradioTotpToken
           totp_secret == GradioTotpSecret
           flow == GradioFlow(args.flow, approval_api_key, approval_secret)
           derive == ~Truthy(GradioTotp)
           totp == IF derive THEN TotpCode(totp_secret) ELSE GradioTotp
           started == <<Handler("connect", None, FALSE)>>
           call == IF flow = "approval"
                   THEN TokenCall("approval", approval_api_key, approval_secret, None)
                   ELSE TokenCall("totp", totp_token, None, totp)
       IN  IF flow = "approval" /\ (~Truthy(approval_api_key) \/ ~Truthy(approval_secret))
           THEN /\ out' = started
                /\ token_state' = Empty
                /\ result' = ErrorResult("Missing approval api_key/secret.")
           ELSE IF flow # "approval" /\ ~Truthy(totp_token)
           THEN /\ out' = started
                /\ token_state' = Empty
                /\ result' = ErrorResult("Missing totp_token.")
           ELSE IF flow # "approval" /\ derive /\ ~Truthy(totp_secret)
           THEN /\ out' = started
                /\ token_state' = Empty
                /\ result' = ErrorResult("Missing totp or totp_secret.")
           ELSE IF flow # "approval" /\ derive /\ ~Base32Ok(totp_secret)
           THEN /\ out' = started
                /\ token_state' = Empty
                /\ result' = ErrorResult("Auth error")
           ELSE \E r \in Outcomes :
                  IF r = Raises
                  THEN /\ out' = started \o <<call>>
                       /\ token_state' = Empty
                       /\ result' = ErrorResult("Auth error")
                  ELSE /\ out' = started \o <<call, NewClient(NormalizeToken(r))>>
                       /\ token_state' = NormalizeToken(r)
                       /\ result' = [kind |-> "connected",
                                     text |-> GradioRedacted(NormalizeToken(r))]
    /\ pc' = "idle"
    /\ UNCHANGED <<prog, cfg, env, args, loc, exitmsg, file, data, shown, cache>>

\* _require_no_trading: the method names blocked unless trading is allowed
GradioTradingMethods == {<<"place_order">>, <<"modify_order">>, <<"cancel_order">>,
                         <<"create_smart_order">>, <<"modify_smart_order">>,
                         <<"cancel_smart_order">>}

TradingBlockedPlaceOnly(method_name, allow_trading) ==
    method_name = <<"place_order">> /\ ~allow_trading
\* _require_no_trading raises
TradingBlocked(method_name, allow_trading) ==
    method_name \in GradioTradingMethods /\ ~allow_trading

\* call_method, from the JSON texts on: the method is invoked unless a text is
\* not what it must be
CallMethodBody(method_name, started) ==
    \E json \in JsonInputs(Empty) :
      LET argsKind == IF Strip(json[1]) # Empty THEN JsonKind(json[1]) ELSE "list"
          kwargsKind == IF Strip(json[2]) # Empty THEN JsonKind(json[2]) ELSE "dict"
      IN  IF argsKind = "invalid" \/ kwargsKind = "invalid"
          THEN /\ out' = started \o <<NewClient(token_state)>>
               /\ result' = ErrorResult("Invalid JSON")
          ELSE IF argsKind # "list"
          THEN /\ out' = started \o <<NewClient(token_state)>>
               /\ result' = ErrorResult("--args must be JSON array")
          ELSE IF kwargsKind # "dict"
          THEN /\ out' = started \o <<NewClient(token_state)>>
               /\ result' = ErrorResult("--kwargs must be JSON object")
          ELSE /\ out' = started \o <<NewClient(token_state), ClientCall(method_name)>>
               /\ \E returns \in BOOLEAN :
                    result' = IF returns THEN ValueResult ELSE ErrorResult("raised")

\* call_method(token, method_name, args_json, kwargs_json, allow_trading)
call_method ==
    /\ prog = "gradio"
    /\ \E method_name \in MethodInputs \cup {<<WS>>}, allow_trading \in BOOLEAN :
         LET started == <<Handler("call_method", method_name, allow_trading)>>
         IN  IF ~Truthy(token_state)
             THEN /\ out' = started
                  /\ result' = ErrorResult("Not connected")
             ELSE IF Strip(method_name) = Empty
             THEN /\ out' = started
                  /\ result' = ErrorResult("Method name is required")
             ELSE IF ~HasAttr(method_name)
             THEN /\ out' = started \o <<NewClient(token_state)>>
                  /\ result' = ErrorResult("Unknown method")
             ELSE IF TradingBlocked(method_name, allow_trading)
             THEN /\ out' = started \o <<NewClient(token_state)>>
                  /\ result' = ErrorResult("Trading action blocked.")
             ELSE CallMethodBody(method_name, started)
    /\ pc' = "idle"
    /\ UNCHANGED <<prog, cfg, env, args, loc, exitmsg, file, token_state, data, shown, cache>>

\* get_quote(token, trading_symbol, exchange, segment)
get_quote ==
    /\ prog = "gradio"
    /\ \E returns \in BOOLEAN :
         LET started == <<Handler("get_quote", None, FALSE)>>
         IN  IF ~Truthy(token_state)
             THEN /\ out' = started
                  /\ result' = ErrorResult("Not connected")
             ELSE /\ out' = started \o <<NewClient(token_state), ClientCall(<<"get_quote">>)>>
                  /\ result' = IF returns THEN ValueResult ELSE ErrorResult("raised")
    /\ pc' = "idle"
    /\ UNCHANGED <<prog, cfg, env, args, loc, exitmsg, file, token_state, data, shown, cache>>

\* get_profile(token)
get_profile ==
    /\ prog = "gradio"
    /\ \E returns \in BOOLEAN :
         LET started == <<Handler("get_profile", None, FALSE)>>
         IN  IF ~Truthy(token_state)
             THEN /\ out' = started
                  /\ result' = ErrorResult("Not connected")
             ELSE /\ out' = started \o <<NewClient(token_state),
                                         ClientCall(<<"get_user_profile">>)>>
                  /\ result' = IF returns THEN ValueResult ELSE ErrorResult("raised")
    /\ pc' = "idle"
    /\ UNCHANGED <<prog, cfg, env, args, loc, exitmsg, file, token_state, data, shown, cache>>

----------------------------------------------------------------------------
(* groww_gradio.py: the data handed back by the SDK and its reshaping *)

\* JSON-like values: None, numbers, strings, lists and dicts (keys in order)
JNull == [t |-> "null", v |-> 0, keys |-> <<>>, items |-> <<>>]
JNum(n) == [t |-> "num", v |-> n, keys |-> <<>>, items |-> <<>>]
JStr(n) == [t |-> "str", v |-> n, keys |-> <<>>, items |-> <<>>]
JList(items) == [t |-> "list", v |-> 0, keys |-> <<>>, items |-> items]
JDict(keys, items) == [t |-> "dict", v |-> 0, keys |-> keys, items |-> items]

NotNull(item) == item.t # "null"

\* the positions of the items that are not None, in order
NotNullPositions(items) ==
    SelectSeq([i \in 1..Len(items) |-> i], LAMBDA i : NotNull(items[i]))

RECURSIVE PruneNullsTopLevel(_)
PruneNullsTopLevel(value) ==
    IF value.t = "dict"
    THEN LET kept == NotNullPositions(value.items)
         IN  JDict([k \in 1..Len(kept) |-> value.keys[kept[k]]],
                   [k \in 1..Len(kept) |-> PruneNullsTopLevel(value.items[kept[k]])])
    ELSE IF value.t = "list"
    THEN JList(SelectSeq(value.items, NotNull))
    ELSE value
\* _prune_nulls
RECURSIVE PruneNulls(_)
PruneNulls(value) ==
    IF value.t = "dict"
    THEN LET kept == NotNullPositions(value.items)
         IN  JDict([k \in 1..Len(kept) |-> value.keys[kept[k]]],
                   [k \in 1..Len(kept) |-> PruneNulls(value.items[kept[k]])])
    ELSE IF value.t = "list"
    THEN LET kept == NotNullPositions(value.items)
         IN  JList([k \in 1..Len(kept) |-> PruneNulls(value.items[kept[k]])])
    ELSE value

\* the key "error" and the k-th other key of a dict
ErrorKey == <<"error", 0>>
Key(k) == <<"k", k>>

\* the values of exactly n nodes and the sequences of values of n nodes in all;
\* a dict has the keys Key(1), Key(2), ...
RECURSIVE JTrees(_), JForests(_)
JTrees(n) ==
    IF n = 1
    THEN {JNull, JNum(0), JList(<<>>), JDict(<<>>, <<>>)}
    ELSE UNION {{JList(f), JDict([k \in 1..Len(f) |-> Key(k)], f)} : f \in JForests(n - 1)}
JForests(n) ==
    IF n = 0 THEN {<<>>}
    ELSE UNION {{<<value>> \o f : value \in JTrees(k), f \in JForests(n - k)} :
                k \in 1..n}

\* the dict with "error" for its first key
WithError(value) == [value EXCEPT !.keys[1] = ErrorKey]

\* what groww.get_quote may return: any value, a dict with an "error" key too
QuoteValues ==
    LET plain == UNION {JTrees(n) : n \in 1..MaxNodes}
    IN  plain \cup {WithError(value) : value \in {d \in plain : d.keys # <<>>}}

\* get_quote_clean, given the result of get_quote
QuoteClean(value) ==
    IF value.t = "dict" /\ ErrorKey \notin Range(value.keys) THEN PruneNulls(value)
    ELSE value

get_quote_clean ==
    /\ prog = "gradio"
    /\ pc = "idle"
    /\ data \in QuoteValues
    /\ LET started == <<Handler("get_quote_clean", None, FALSE)>>
       IN  IF ~Truthy(token_state)
           THEN /\ out' = started
                /\ result' = ErrorResult("Not connected")
                /\ shown' = NoData
           ELSE /\ out' = started \o <<NewClient(token_state), ClientCall(<<"get_quote">>)>>
                /\ \/ /\ result' = ErrorResult("raised")
                      /\ shown' = NoData
                   \/ /\ result' = ValueResult
                      /\ shown' = QuoteClean(data)
    /\ pc' = "idle"
    /\ UNCHANGED <<prog, cfg, env, args, loc, exitmsg, file, token_state, data, cache>>

\* a dict key that is a name
Name(k) == <<k, 0>>

\* dict.get(key): the value under the key, None when the key is missing
Get(value, key) ==
    IF \E i \in 1..Len(value.keys) : value.keys[i] = key
    THEN value.items[CHOOSE i \in 1..Len(value.keys) : value.keys[i] = key]
    ELSE JNull

\* truthiness of a value and Python `a or b`
JTruthy(value) ==
    CASE value.t = "null" -> FALSE
      [] value.t \in {"num", "str"} -> value.v # 0
      [] OTHER -> value.items # <<>>
JOr(a, b) == IF JTruthy(a) THEN a ELSE b

IsList(value) == value.t = "list"

\* the first value of the sequence that is a list, None when there is none
FirstList(values) ==
    LET found == SelectSeq(values, IsList) IN IF found = <<>> THEN JNull ELSE found[1]

CandleKeys == <<"candles", "data", "candle_data", "historical_data", "result">>

\* _extract_candles: the list of candles in the data, as a sequence
ExtractCandles(value) ==
    LET listed == IF value.t = "dict"
                  THEN FirstList([k \in 1..Len(CandleKeys) |-> Get(value, Name(CandleKeys[k]))])
                  ELSE JNull
    IN  IF listed.t = "list" THEN listed.items
        ELSE IF value.t = "list" THEN value.items
        ELSE <<>>

\* _format_ts: None stays None, a number becomes the text of its date and time,
\* a text that is no number stays as it is
FormatTs(value) ==
    IF value.t = "num" THEN [value EXCEPT !.t = "datetime"] ELSE value

\* candle[k] if len(candle) > k else None, k counted from 0
At(candle, k) == IF Len(candle.items) > k THEN candle.items[k + 1] ELSE JNull

RowKeys == <<Name("timestamp"), Name("open"), Name("high"), Name("low"), Name("close"),
             Name("volume")>>

\* the row _candles_to_rows builds for one candle that is a dict or a list
Row(candle) ==
    IF candle.t = "dict"
    THEN JDict(RowKeys,
               <<FormatTs(JOr(JOr(JOr(Get(candle, Name("timestamp")),
                                      Get(candle, Name("time"))),
                                  Get(candle, Name("t"))),
                              Get(candle, Name("date")))),
                 JOr(Get(candle, Name("open")), Get(candle, Name("o"))),
                 JOr(Get(candle, Name("high")), Get(candle, Name("h"))),
                 JOr(Get(candle, Name("low")), Get(candle, Name("l"))),
                 JOr(Get(candle, Name("close")), Get(candle, Name("c"))),
                 JOr(Get(candle, Name("volume")), Get(candle, Name("v")))>>)
    ELSE JDict(RowKeys,
               <<FormatTs(At(candle, 0)), At(candle, 1), At(candle, 2), At(candle, 3),
                 At(candle, 4), At(candle, 5)>>)

IsCandle(candle) == candle.t \in {"dict", "list"}

\* _candles_to_rows
CandlesToRows(value) ==
    LET candles == SelectSeq(ExtractCandles(value), IsCandle)
    IN  [i \in 1..Len(candles) |-> Row(candles[i])]

\* float(x): the number, None for what raises TypeError or ValueError
Float(value) == IF value.t = "num" THEN value ELSE JNull

\* _parse_candle_close
ParseCandleClose(candle) ==
    IF candle.t = "dict" /\ \E i \in 1..Len(candle.keys) : candle.keys[i] = Name("close")
    THEN Float(Get(candle, Name("close")))
    ELSE IF candle.t = "dict" /\ \E i \in 1..Len(candle.keys) : candle.keys[i] = Name("c")
    THEN Float(Get(candle, Name("c")))
    ELSE IF candle.t = "list" /\ Len(candle.items) >= 5
    THEN Float(candle.items[5])
    ELSE JNull

\* an exact quotient n / d
JRatio(n, d) == [t |-> "ratio", v |-> n, keys |-> <<>>, items |-> <<JNum(d)>>]

SummaryKeys == <<Name("count"), Name("start_close"), Name("end_close"), Name("return_pct")>>

\* backtest_simple, given the data: the summary, or None where it returns an
\* error (fewer than two closes, or the division by a start_close of 0 raises)
BacktestSummary(value) ==
    LET candles == ExtractCandles(value)
        closes == SelectSeq([i \in 1..Len(candles) |-> ParseCandleClose(candles[i])],
                            NotNull)
    IN  IF Len(closes) < 2 THEN JNull
        ELSE LET start_close == closes[1]
                 end_close == closes[Len(closes)]
             IN  IF start_close.v = 0 THEN JNull
                 ELSE JDict(SummaryKeys,
                            <<JNum(Len(closes)), start_close, end_close,
                              JRatio((end_close.v - start_close.v) * 100, start_close.v)>>)

\* a candle as a dict with the long keys
LongCandle(close, volume) ==
    JDict(<<Name("timestamp"), Name("open"), Name("high"), Name("low"), Name("close"),
            Name("volume")>>,
          <<JNum(7), JNum(1), JNum(1), JNum(1), close, volume>>)

\* the candles the SDK may return: dicts with the long keys (the close a number,
\* None or a text that is no number; the volume 0 or not), a dict with the short
\* keys, lists of 6 and of 4 items, and a text
Candles ==
    {LongCandle(close, JNum(3)) : close \in {JNum(0), JNum(1), JNum(2), JNull, JStr(1)}}
      \cup {LongCandle(JNum(1), JNum(0)),
            JDict(<<Name("t"), Name("o"), Name("h"), Name("l"), Name("c"), Name("v")>>,
                  <<JNum(7), JNum(2), JNum(2), JNum(2), JNum(2), JNum(3)>>),
            JList(<<JNum(7), JNum(1), JNum(1), JNum(1), JNum(1), JNum(3)>>),
            JList(<<JNum(7), JNum(1), JNum(1), JNum(1)>>),
            JStr(1)}

\* the candles between the first and the last: with a close and without
InnerCandles == {LongCandle(JNum(2), JNum(3)), LongCandle(JNull, JNum(3))}

RECURSIVE InnerLists(_)
InnerLists(n) ==
    IF n = 0 THEN {<<>>}
    ELSE InnerLists(n - 1)
           \cup {<<candle>> \o rest : candle \in InnerCandles,
                                      rest \in {l \in InnerLists(n - 1) : Len(l) = n - 1}}

\* the candles of a range: none, one, or a first and a last with some between
ShortCandleLists == {<<>>} \cup {<<candle>> : candle \in Candles}
CandleLists ==
    ShortCandleLists
      \cup {<<first>> \o inner \o <<last>> :
             first \in Candles, inner \in InnerLists(MaxInner), last \in Candles}

\* what groww.get_historical_candle_data may return: the list of candles, a dict
\* with the list under "candles", or under "data" next to a "candles" that is no
\* list (for the lists of at most one candle); or None
CandleData ==
    {JNull}
      \cup UNION {{JList(l), JDict(<<Name("candles")>>, <<JList(l)>>)} : l \in CandleLists}
      \cup {JDict(<<Name("candles"), Name("data")>>, <<JNum(1), JList(l)>>) :
             l \in ShortCandleLists}

HistoricalMethods == {<<"get_historical_candle_data">>, <<"get_historical_candles">>}

get_historical ==
    /\ prog = "gradio"
    /\ pc = "idle"
    /\ data \in CandleData
    /\ LET started == <<Handler("get_historical", None, FALSE)>>
       IN  IF ~Truthy(token_state)
           THEN /\ out' = started
                /\ result' = ErrorResult("Not connected")
                /\ shown' = JList(<<>>)
           ELSE \E method \in HistoricalMethods :
                  /\ out' = started \o <<NewClient(token_state), ClientCall(method)>>
                  /\ \/ /\ result' = ErrorResult("raised")
                        /\ shown' = JList(<<>>)
                     \/ /\ result' = ValueResult
                        /\ shown' = JList(CandlesToRows(data))
    /\ pc' = "idle"
    /\ UNCHANGED <<prog, cfg, env, args, loc, exitmsg, file, token_state, data, cache>>

backtest_simple ==
    /\ prog = "gradio"
    /\ pc = "idle"
    /\ data \in CandleData
    /\ LET started == <<Handler("backtest_simple", None, FALSE)>>
           called == started \o <<NewClient(token_state),
                                  ClientCall(<<"get_historical_candle_data">>)>>
       IN  IF ~Truthy(token_state)
           THEN /\ out' = started
                /\ result' = ErrorResult("Not connected")
                /\ shown' = NoData
           ELSE /\ out' = called
                /\ \/ /\ result' = ErrorResult("raised")
                      /\ shown' = NoData
                   \/ /\ result' = IF BacktestSummary(data) = JNull
                                   THEN ErrorResult("no summary") ELSE ValueResult
                      /\ shown' = IF BacktestSummary(data) = JNull THEN NoData
                                  ELSE BacktestSummary(data)
    /\ pc' = "idle"
    /\ UNCHANGED <<prog, cfg, env, args, loc, exitmsg, file, token_state, data, cache>>

----------------------------------------------------------------------------
(* groww_gradio.py: the instrument search *)

\* the instrument tables get_all_instruments may return, as their names
Tables == {<<"TCS", "TCS-EQ", "INFY">>, <<"INFY">>}

\* what the user may type as the search term, and the limits of the slider
Queries == {<<WS>>, <<WS, "TCS">>, <<"zzz">>}
Limits == {1, 25}

\* str.lower() of a text, symbol by symbol
LowerSym(c) == IF c = "TCS" THEN "tcs" ELSE c
Lower(s) == [i \in 1..Len(s) |-> LowerSym(s[i])]

\* str.lower().str.contains(q): the lower-case words a name contains
Words(name) ==
    CASE name = "TCS" -> {"tcs"}
      [] name = "TCS-EQ" -> {"tcs", "eq"}
      [] name = "INFY" -> {"infy"}
      [] OTHER -> {}
Contains(name, q) == Len(q) = 1 /\ q[1] \in Words(name)

\* DataFrame.head(limit)
Head_(rows, limit) == SubSeq(rows, 1, IF Len(rows) < limit THEN Len(rows) ELSE limit)

\* search_instruments, from `df = INSTRUMENT_CACHE["df"]` to the return
SearchResult(df, query, limit) ==
    LET q == Lower(Strip(query))
        view == Head_(SelectSeq(df, LAMBDA name : Contains(name, q)), limit)
    IN  IF q = Empty THEN ErrorResult("Enter a search term.")
        ELSE IF view = <<>> THEN ErrorResult("No instruments found.")
        ELSE [kind |-> "value", text |-> view]

SearchFetchesAlways(df) == TRUE
\* `if INSTRUMENT_CACHE["df"] is None:`
SearchFetches(df) == df = None

\* search_instruments(token, query, exchange, segment, limit), the filters empty
search_instruments ==
    /\ prog = "gradio"
    /\ \E query \in Queries, limit \in Limits, returns \in BOOLEAN, table \in Tables :
         LET started == <<Handler("search_instruments", query, FALSE)>>
             fetches == SearchFetches(INSTRUMENT_CACHE)
             called == started \o <<NewClient(token_state)>>
                         \o (IF fetches THEN <<ClientCall(<<"get_all_instruments">>)>>
                             ELSE <<>>)
             df == IF fetches THEN table ELSE INSTRUMENT_CACHE
         IN  IF ~Truthy(token_state)
             THEN /\ out' = started
                  /\ result' = ErrorResult("Not connected")
                  /\ UNCHANGED cache
             ELSE IF fetches /\ ~returns
             THEN /\ out' = called
                  /\ result' = ErrorResult("raised")
                  /\ UNCHANGED cache
             ELSE /\ out' = called
                  /\ INSTRUMENT_CACHE' = df
                  /\ fetched' = IF fetches THEN Append(fetched, token_state) ELSE fetched
                  /\ result' = SearchResult(df, query, limit)
    /\ pc' = "idle"
    /\ UNCHANGED <<prog, cfg, env, args, loc, exitmsg, file, token_state, data, shown>>

NextGradio == connect \/ call_method \/ get_quote \/ get_profile

\* the credentials come from the form
SpecGradio == InitWith({"gradio"}, FlagSources \ SecretSources) /\ [][NextGradio]_vars

----------------------------------------------------------------------------
(* The four programs from the start to the request of the access token *)

\* the connect form filled in for the approval flow with both credentials typed,
\* and the SDK holding one of the values of D for the request looked at
DataFlags == {ArgSrc.approval_api_key, ArgSrc.approval_secret}
InitData(D) ==
    /\ InitServed({"gradio"}, DataFlags, D)
    /\ args.flow = "approval"
    /\ ~args.use_secrets
    /\ args.approval_api_key = <<WS, ArgSrc.approval_api_key, WS>>
    /\ args.approval_secret = <<WS, ArgSrc.approval_secret, WS>>

NextQuote == connect \/ get_quote_clean

SpecQuote == InitData(QuoteValues) /\ [][NextQuote]_vars

NextCandles == connect \/ get_historical \/ backtest_simple

SpecCandles == InitData(CandleData) /\ [][NextCandles]_vars

NextSearch == connect \/ search_instruments

SpecSearch == InitData({NoData}) /\ [][NextSearch]_vars

NextCred == NextAuthCred \/ NextSmokeCred \/ NextCliCred \/ connect

SpecCred == InitFor(Progs) /\ [][NextCred]_vars

----------------------------------------------------------------------------
(* Properties *)

\* a source that is set and not whitespace only
NonBlank(v) == v # None /\ Strip(v) # Empty

AnyNonBlank(values) == \E i \in 1..Len(values) : NonBlank(values[i])

ConfirmAsks == Asks(ConfirmQuestion)

\* C1: in groww_cli --call mode a trading method is invoked only after the user
\* typed PLACE (whitespace around it stripped) at the confirmation; any other
\* input ends the run with "Aborted." and no client method is invoked.
C1_ConfirmGate ==
    prog = "cli" =>
      /\ \A i \in TradingCalls :
           \E j \in ConfirmAsks : j < i /\ Strip(out[j].text) = <<"PLACE">>
      /\ \A j \in ConfirmAsks :
           Strip(out[j].text) # <<"PLACE">> =>
             pc = "exit" /\ exitmsg = <<"Aborted.">> /\ ClientCalls = {}

\* a trading method was invoked after " PLACE " was typed
C1_Witness ==
    /\ prog = "cli"
    /\ \E i \in TradingCalls : out[i].text = <<"cancel_smart_order">>
    /\ \E j \in ConfirmAsks : out[j].text = <<WS, "PLACE", WS>>

\* C2: in the Gradio UI a handler invocation whose 'Allow trading actions' value
\* is false never invokes one of the six trading methods; call_method returns
\* an error value for them.
C2_TradingBlocked ==
    (prog = "gradio" /\ out # <<>> /\ ~(out[1].tag = "call_method" /\ out[1].flag)) =>
      /\ TradingCalls = {}
      /\ (out[1].tag = "call_method" /\ out[1].text \in TradingMethods) =>
           result.kind = "error"

\* a connected session asked call_method for a trading method without the
\* permission and got the error
C2_Witness ==
    /\ prog = "gradio"
    /\ Truthy(token_state)
    /\ out # <<>> /\ out[1].tag = "call_method" /\ ~out[1].flag
    /\ out[1].text = <<"modify_smart_order">>
    /\ result = ErrorResult("Trading action blocked.")

\* C3: in groww_auth, groww_cli and the Gradio connect form a non-blank override
\* (flag or form field) of a credential is, stripped, the value passed to
\* GrowwAPI.get_access_token by the flow that uses the credential, whatever the
\* secrets file and the environment hold.
C3_OverrideWins ==
    prog # "smoketest" =>
      \A i \in TokenCalls :
        /\ (out[i].tag = "totp" /\ NonBlank(args.totp_token)) =>
             out[i].api_key = Strip(args.totp_token)
        /\ (out[i].tag = "totp" /\ NonBlank(args.totp)) =>
             out[i].totp = Strip(args.totp)
        /\ (out[i].tag = "approval" /\ NonBlank(args.approval_api_key)) =>
             out[i].api_key = Strip(args.approval_api_key)
        /\ (out[i].tag = "approval" /\ NonBlank(args.approval_secret)) =>
             out[i].secret = Strip(args.approval_secret)

\* groww_auth ran the TOTP flow with --totp-token given while the secrets file
\* and the environment held a totp_token too
C3_Witness ==
    /\ prog = "auth"
    /\ NonBlank(args.totp_token) /\ NonBlank(cfg.totp_token)
    /\ NonBlank(env.GROWW_TOTP_TOKEN)
    /\ \E i \in TokenCalls : out[i].tag = "totp" /\ out[i].api_key = <<ArgSrc.totp_token>>

\* C4: in groww_auth, groww_cli and groww_smoketest, without a flag for it, the
\* approval api_key (secret) passed is the non-blank approval_api_key
\* (approval_secret) of the secrets file, else the non-blank legacy api_key
\* (secret) of the secrets file, both before GROWW_APPROVAL_API_KEY
\* (GROWW_APPROVAL_SECRET); whitespace-only values count as absent.
C4_ApprovalPrecedence ==
    prog \in {"auth", "cli", "smoketest"} =>
      \A i \in TokenCalls :
        out[i].tag = "approval" =>
          /\ ~NonBlank(args.approval_api_key) =>
               /\ NonBlank(cfg.approval_api_key) =>
                    out[i].api_key = Strip(cfg.approval_api_key)
               /\ (~NonBlank(cfg.approval_api_key) /\ NonBlank(cfg.api_key)) =>
                    out[i].api_key = Strip(cfg.api_key)
          /\ ~NonBlank(args.approval_secret) =>
               /\ NonBlank(cfg.approval_secret) =>
                    out[i].secret = Strip(cfg.approval_secret)
               /\ (~NonBlank(cfg.approval_secret) /\ NonBlank(cfg.secret)) =>
                    out[i].secret = Strip(cfg.secret)

\* the approval flow of groww_auth passed the legacy api_key of the file although
\* GROWW_APPROVAL_API_KEY was set
C4_Witness ==
    /\ prog = "auth"
    /\ NonBlank(cfg.api_key) /\ NonBlank(env.GROWW_APPROVAL_API_KEY)
    /\ \E i \in TokenCalls : out[i].tag = "approval" /\ out[i].api_key = <<CfgSrc.api_key>>

\* C5 as stated: in groww_auth and groww_smoketest, with no --totp-token and no
\* totp_token in the secrets file, the legacy api_key of the file is the api_key
\* of the TOTP call, before GROWW_TOTP_TOKEN.
C5_LegacyBeforeEnv ==
    prog \in {"auth", "smoketest"} =>
      \A i \in TokenCalls :
        (/\ out[i].tag = "totp"
         /\ ~NonBlank(args.totp_token) /\ ~NonBlank(cfg.totp_token)
         /\ NonBlank(cfg.api_key)) =>
          out[i].api_key = Strip(cfg.api_key)

\* C5 amended: with no --totp-token and no totp_token in the secrets file,
\* GROWW_TOTP_TOKEN is the api_key of the TOTP call when it is set, and the
\* legacy api_key of the file only when it is not.
C5_EnvBeforeLegacy ==
    prog \in {"auth", "smoketest"} =>
      \A i \in TokenCalls :
        (/\ out[i].tag = "totp"
         /\ ~NonBlank(args.totp_token) /\ ~NonBlank(cfg.totp_token)) =>
          /\ NonBlank(env.GROWW_TOTP_TOKEN) =>
               out[i].api_key = Strip(env.GROWW_TOTP_TOKEN)
          /\ (~NonBlank(env.GROWW_TOTP_TOKEN) /\ NonBlank(cfg.api_key)) =>
               out[i].api_key = Strip(cfg.api_key)

\* the TOTP flow ran with both GROWW_TOTP_TOKEN and the legacy api_key set
C5_Witness ==
    /\ prog \in {"auth", "smoketest"}
    /\ ~NonBlank(args.totp_token) /\ ~NonBlank(cfg.totp_token)
    /\ NonBlank(env.GROWW_TOTP_TOKEN) /\ NonBlank(cfg.api_key)
    /\ \E i \in TokenCalls : out[i].tag = "totp"

\* C6 as stated: in groww_auth and groww_smoketest, without --totp, the `totp` of
\* the secrets file is the totp of the TOTP call, before GROWW_TOTP.
C6_CfgTotpBeforeEnv ==
    prog \in {"auth", "smoketest"} =>
      \A i \in TokenCalls :
        (out[i].tag = "totp" /\ ~NonBlank(args.totp) /\ NonBlank(cfg.totp)) =>
          out[i].totp = Strip(cfg.totp)

\* C6 amended: without --totp, GROWW_TOTP is the totp of the TOTP call when it is
\* set; the `totp` of the secrets file is passed only when GROWW_TOTP is not set
\* and no totp_secret or legacy secret is there to derive a code from.
C6_EnvBeforeCfgTotp ==
    prog \in {"auth", "smoketest"} =>
      \A i \in TokenCalls :
        (out[i].tag = "totp" /\ ~NonBlank(args.totp)) =>
          /\ NonBlank(env.GROWW_TOTP) => out[i].totp = Strip(env.GROWW_TOTP)
          /\ (NonBlank(cfg.totp) /\ out[i].totp = Strip(cfg.totp)) =>
               ~AnyNonBlank(<<env.GROWW_TOTP, cfg.totp_secret, env.GROWW_TOTP_SECRET,
                              cfg.secret, env.GROWW_API_SECRET>>)
          /\ (NonBlank(cfg.totp)
                /\ ~AnyNonBlank(<<env.GROWW_TOTP, cfg.totp_secret, env.GROWW_TOTP_SECRET,
                                  cfg.secret, env.GROWW_API_SECRET>>)) =>
               out[i].totp = Strip(cfg.totp)

\* the TOTP flow ran with both GROWW_TOTP and the `totp` of the file set
C6_Witness ==
    /\ prog \in {"auth", "smoketest"}
    /\ ~NonBlank(args.totp)
    /\ NonBlank(env.GROWW_TOTP) /\ NonBlank(cfg.totp)
    /\ \E i \in TokenCalls : out[i].tag = "totp"

NoteBefore(key, i) == \E j \in Notes : j < i /\ out[j].text = <<key>>

\* the credentials passed by call i that are the legacy keys of the secrets file
LegacyKeysIn(i) ==
    {k \in {"api_key", "secret", "totp"} :
       \/ k = "api_key" /\ NonBlank(cfg.api_key) /\ out[i].api_key = Strip(cfg.api_key)
       \/ k = "secret" /\ NonBlank(cfg.secret)
            /\ (out[i].secret = Strip(cfg.secret)
                  \/ out[i].totp = TotpCode(Strip(cfg.secret)))
       \/ k = "totp" /\ NonBlank(cfg.totp) /\ out[i].totp = Strip(cfg.totp)}

\* C7 as stated: in groww_auth a credential passed to get_access_token that was
\* taken from a legacy key of the secrets file (api_key, secret, totp) has its
\* "Note:" printed before the call, in the approval flow as in the TOTP flow.
C7_NoteBeforeEveryCall ==
    prog = "auth" =>
      \A i \in TokenCalls : \A k \in LegacyKeysIn(i) : NoteBefore(k, i)

\* C7 amended: the note is printed before the call in the TOTP flow; the approval
\* flow passes the legacy api_key and secret without a note about them.
C7_NoteBeforeTotpCall ==
    prog = "auth" =>
      \A i \in TokenCalls :
        /\ out[i].tag = "totp" => \A k \in LegacyKeysIn(i) : NoteBefore(k, i)
        /\ out[i].tag = "approval" =>
             \A k \in {"api_key", "secret", "totp"} : ~NoteBefore(k, i)

\* the TOTP flow passed the legacy api_key of the file as the TOTP api_key
C7_Witness ==
    /\ prog = "auth"
    /\ \E i \in TokenCalls :
         /\ out[i].tag = "totp"
         /\ out[i].api_key = <<CfgSrc.api_key>>
         /\ NoteBefore("api_key", i)

\* C8: in groww_smoketest a non-blank --totp-token is the api_key of the TOTP
\* call, whatever the totp_token of the secrets file and GROWW_TOTP_TOKEN are.
C8_SmokeOverrideWins ==
    prog = "smoketest" =>
      \A i \in TokenCalls :
        (out[i].tag = "totp" /\ NonBlank(args.totp_token)) =>
          out[i].api_key = Strip(args.totp_token)

\* C9: groww_cli asks for a credential only when its flag, its secrets-file keys
\* and its environment variables are all blank (for the one-time code: --totp,
\* GROWW_TOTP and every totp_secret), and asks for the flow only under
\* --flow auto when neither credential set is complete.
C9_PromptLastResort ==
    prog = "cli" =>
      LET keySet == AnyNonBlank(<<args.approval_api_key, cfg.approval_api_key, cfg.api_key,
                                  env.GROWW_APPROVAL_API_KEY, env.GROWW_API_KEY>>)
          secretSet == AnyNonBlank(<<args.approval_secret, cfg.approval_secret, cfg.secret,
                                     env.GROWW_APPROVAL_SECRET, env.GROWW_API_SECRET>>)
          tokenSet == AnyNonBlank(<<args.totp_token, cfg.totp_token,
                                    env.GROWW_TOTP_TOKEN>>)
          codeSet == AnyNonBlank(<<args.totp, env.GROWW_TOTP>>)
          totpSecretSet == AnyNonBlank(<<cfg.totp_secret, env.GROWW_TOTP_SECRET>>)
      IN  /\ Asks("approval api_key") # {} => ~keySet
          /\ Asks("approval secret") # {} => ~secretSet
          /\ Asks("totp_token") # {} => ~tokenSet
          /\ Asks("current 6-digit OTP") # {} => ~codeSet /\ ~totpSecretSet
          /\ Asks("Choose flow") # {} =>
               /\ args.flow = "auto"
               /\ ~(keySet /\ secretSet)
               /\ ~(tokenSet /\ (codeSet \/ totpSecretSet))

\* the one-time code was asked for although a totp_token was found
C9_Witness ==
    /\ prog = "cli"
    /\ Asks("current 6-digit OTP") # {}
    /\ Asks("totp_token") = {}
    /\ TokenCalls # {}

FellBack == \E j \in Notes : out[j].text = <<"fallback">>

\* C10: a run of groww_auth calls get_access_token at most once and a successful
\* run exactly once, with api_key+totp or with api_key+secret; after the
\* fallback from an invalid totp_secret the one call is the approval call.
C10_OneTokenCall ==
    prog = "auth" =>
      /\ Cardinality(TokenCalls) <= 1
      /\ pc = "done" => Cardinality(TokenCalls) = 1
      /\ \A i \in TokenCalls :
           \/ out[i].tag = "totp" /\ out[i].totp # None /\ out[i].secret = None
           \/ out[i].tag = "approval" /\ out[i].secret # None /\ out[i].totp = None
      /\ FellBack => \A i \in TokenCalls : out[i].tag = "approval"

\* a run that fell back to the approval flow ended well
C10_Witness ==
    /\ prog = "auth"
    /\ pc = "done"
    /\ FellBack
    /\ \E i \in TokenCalls : out[i].tag = "approval"

Writes == {i \in 1..Len(out) : out[i].ev = "write_text"}
NewClients == {i \in 1..Len(out) : out[i].ev = "GrowwAPI"}
Prints == {i \in 1..Len(out) : out[i].ev = "print"}

\* C11: groww_auth writes .access_token only with --save-token, after
\* get_access_token returned and the client was constructed, and writes the
\* stripped token followed by a newline; without --save-token nothing is written.
C11_SaveToken ==
    prog = "auth" =>
      /\ file # None <=> Writes # {}
      /\ ~loc.save_token => file = None
      /\ \A w \in Writes :
           /\ loc.save_token
           /\ out[w].tag = ".access_token"
           /\ \E c \in TokenCalls : c < w
           /\ loc.access_token_obj.kind \in {"str", "dict"}
           /\ \E n \in NewClients : n < w
           /\ out[w].text = Strip(loc.access_token) \o <<"\n">>
           /\ file = out[w].text

\* a run with --save-token wrote the token taken out of a dict response
C11_Witness ==
    /\ prog = "auth"
    /\ pc = "done"
    /\ loc.save_token
    /\ loc.access_token_obj.kind = "dict"
    /\ file = ShortToken \o <<"\n">>

\* C12: without --print-token groww_auth prints only a redacted preview, "***"
\* for a token of at most 10 characters and otherwise its first 6 characters,
\* "..." and its last 4 characters; the full token is printed only with
\* --print-token.
C12_RedactedPreview ==
    (prog = "auth" /\ pc = "done") =>
      LET token == loc.access_token
          preview == IF Len(token) <= 10 THEN <<"*", "*", "*">>
                     ELSE SubSeq(token, 1, 6) \o <<".", ".", ".">>
                            \o SubSeq(token, Len(token) - 3, Len(token))
      IN  IF loc.print_token
          THEN out[Len(out)] = Printed("token", token)
          ELSE /\ out[Len(out)] = Printed("Access token", preview)
               /\ \A i \in Prints : out[i].text # token

\* a token of exactly 10 characters was shown as "***"
C12_Witness ==
    /\ prog = "auth"
    /\ pc = "done"
    /\ ~loc.print_token
    /\ loc.access_token = TenToken
    /\ out[Len(out)].text = <<"*", "*", "*">>

\* the names of the client methods called so far, in order
CalledMethods == [k \in 1..Cardinality(ClientCalls) |->
                    out[CHOOSE i \in ClientCalls :
                          Cardinality({j \in ClientCalls : j <= i}) = k].text]

\* C13: groww_smoketest calls on the client get_user_profile and then
\* get_holdings_for_user, once each, after authentication, and never a trading
\* method; "Smoke test OK (no orders placed)." is printed only after both calls
\* returned.
C13_SmokeNoOrders ==
    prog = "smoketest" =>
      /\ TradingCalls = {}
      /\ CalledMethods \in {<<>>, <<(<<"get_user_profile">>)>>,
                            <<(<<"get_user_profile">>), (<<"get_holdings_for_user">>)>>}
      /\ \A i \in ClientCalls :
           /\ \E c \in TokenCalls : c < i
           /\ \E n \in NewClients : n < i
      /\ pc = "done" =>
           CalledMethods = <<(<<"get_user_profile">>), (<<"get_holdings_for_user">>)>>
      /\ \A i \in Prints :
           out[i].tag = SmokeOk =>
             /\ pc = "done"
             /\ Cardinality({j \in ClientCalls : j < i}) = 2

\* a run printed the OK line
C13_Witness ==
    /\ prog = "smoketest"
    /\ pc = "done"
    /\ \E i \in Prints : out[i].tag = SmokeOk
    /\ Cardinality(ClientCalls) = 2

\* no None as a dict value or a list element at any depth
RECURSIVE NoNulls(_)
NoNulls(value) ==
    \A i \in 1..Len(value.items) : value.items[i].t # "null" /\ NoNulls(value.items[i])

Concat(seqs) ==
    LET RECURSIVE Cat(_)
        Cat(k) == IF k = 0 THEN <<>> ELSE Cat(k - 1) \o seqs[k]
    IN  Cat(Len(seqs))

\* the value written out in order with every None left out: brackets, keys and
\* leaves
RECURSIVE Flat(_)
Flat(value) ==
    IF value.t = "null" THEN <<>>
    ELSE IF value.t = "list"
    THEN <<(<<"[", 0>>)>> \o Concat([i \in 1..Len(value.items) |-> Flat(value.items[i])])
           \o <<(<<"]", 0>>)>>
    ELSE IF value.t = "dict"
    THEN <<(<<"{", 0>>)>>
           \o Concat([i \in 1..Len(value.items) |->
                        IF value.items[i].t = "null" THEN <<>>
                        ELSE <<value.keys[i]>> \o Flat(value.items[i])])
           \o <<(<<"}", 0>>)>>
    ELSE <<(<<value.t, value.v>>)>>

CleanCalled == out # <<>> /\ out[1].tag = "get_quote_clean" /\ result = ValueResult

\* C14: the result of _prune_nulls has no None as a dict value or a list element
\* at any depth, keeps every other leaf, every key and the order of the items,
\* and pruning it again changes nothing; get_quote_clean prunes only a dict
\* without an "error" key and returns every other result as it is.
C14_PruneNulls ==
    (prog = "gradio" /\ CleanCalled) =>
      /\ NoNulls(PruneNulls(data))
      /\ Flat(PruneNulls(data)) = Flat(data)
      /\ PruneNulls(PruneNulls(data)) = PruneNulls(data)
      /\ shown = IF data.t = "dict" /\ \A i \in 1..Len(data.keys) : data.keys[i][1] # "error"
                 THEN PruneNulls(data) ELSE data

\* a quote with a None inside a list inside the dict was cleaned
C14_Witness ==
    /\ prog = "gradio"
    /\ CleanCalled
    /\ data = JDict(<<Key(1)>>, <<JList(<<JNull, JNum(0)>>)>>)
    /\ shown = JDict(<<Key(1)>>, <<JList(<<JNum(0)>>)>>)

HistoricalCalled == out # <<>> /\ out[1].tag = "get_historical" /\ result = ValueResult

PriceKeys == <<Name("open"), Name("high"), Name("low"), Name("close"), Name("volume")>>

\* C15: _candles_to_rows yields one row per dict or list candle, in order; the
\* open, high, low, close and volume of the row of a dict candle that carries
\* these keys with numbers, zero included, are the candle's values, and those
\* of the row of a list candle are its positions 1 to 5, None where missing.
C15_RowsKeepValues ==
    (prog = "gradio" /\ HistoricalCalled) =>
      LET candles == SelectSeq(ExtractCandles(data), IsCandle)
      IN  /\ Len(shown.items) = Len(candles)
          /\ \A i \in 1..Len(candles) :
               LET candle == candles[i]
                   row == shown.items[i]
               IN  /\ (candle.t = "dict"
                         /\ \A k \in 1..5 : Get(candle, PriceKeys[k]).t = "num") =>
                        \A k \in 1..5 : Get(row, PriceKeys[k]) = Get(candle, PriceKeys[k])
                   /\ candle.t = "list" =>
                        \A k \in 1..5 : Get(row, PriceKeys[k]) = At(candle, k)

BacktestReturned == out # <<>> /\ out[1].tag = "backtest_simple" /\ result = ValueResult

\* the close a candle carries, None when it carries none
CloseIn(candle) ==
    IF candle.t = "dict"
    THEN IF \E i \in 1..Len(candle.keys) : candle.keys[i] = Name("close")
         THEN Get(candle, Name("close")) ELSE Get(candle, Name("c"))
    ELSE IF candle.t = "list" THEN At(candle, 4)
    ELSE JNull

\* C16: whenever backtest_simple returns a summary, start_close is the close of
\* the first candle of the range, end_close the close of the last candle, and
\* return_pct = (end_close - start_close) / start_close * 100.
C16_FirstToLast ==
    (prog = "gradio" /\ BacktestReturned) =>
      LET candles == ExtractCandles(data)
          start_close == Get(shown, Name("start_close"))
          end_close == Get(shown, Name("end_close"))
      IN  /\ candles # <<>>
          /\ start_close = CloseIn(candles[1])
          /\ end_close = CloseIn(candles[Len(candles)])
          /\ Get(shown, Name("return_pct"))
               = JRatio((end_close.v - start_close.v) * 100, start_close.v)

\* the messages main ends with in the TOTP branch and in the approval branch
TotpErrors == {<<"Missing totp_token">>, <<"Invalid totp_secret">>,
               <<"Missing totp/totp_secret">>}
ApprovalErrors == {<<"Missing approval_api_key">>, <<"Missing approval_secret">>,
                   <<"Missing approval credentials">>}

\* the run entered the TOTP branch: it is in it, ended in it, called
\* get_access_token from it or left it by the fallback
TotpAttempted ==
    \/ pc = "totp"
    \/ pc = "exit" /\ exitmsg \in TotpErrors
    \/ FellBack
    \/ \E i \in TokenCalls : out[i].tag = "totp"

\* the run entered the approval branch
ApprovalUsed ==
    \/ pc = "approval"
    \/ pc = "exit" /\ exitmsg \in ApprovalErrors
    \/ \E i \in TokenCalls : out[i].tag = "approval"

\* a totp_token is resolved together with a one-time code or a totp_secret
AuthTotpResolved ==
    /\ AnyNonBlank(<<args.totp_token, cfg.totp_token, env.GROWW_TOTP_TOKEN>>)
    /\ \/ AnyNonBlank(<<args.totp, env.GROWW_TOTP>>)
       \/ AnyNonBlank(<<cfg.totp_secret, env.GROWW_TOTP_SECRET>>)

\* C17: in groww_auth with --flow auto the TOTP flow is attempted exactly when a
\* totp_token (--totp-token, secrets file or GROWW_TOTP_TOKEN) is resolved
\* together with a one-time code (--totp or GROWW_TOTP) or a totp_secret (secrets
\* file or GROWW_TOTP_SECRET); in every other case, also with only the legacy
\* api_key and secret or only the `totp` of the secrets file, the approval flow
\* is used and get_access_token is never called with a totp.
C17_AutoFlow ==
    (prog = "auth" /\ args.flow = "auto" /\ pc # "start") =>
      /\ TotpAttempted <=> AuthTotpResolved
      /\ ~AuthTotpResolved =>
           /\ ApprovalUsed
           /\ \A i \in TokenCalls : out[i].tag = "approval" /\ out[i].totp = None

\* --flow auto with a totp_token and only the `totp` of the secrets file: the
\* approval flow made the call
C17_Witness ==
    /\ prog = "auth"
    /\ args.flow = "auto"
    /\ NonBlank(cfg.totp_token) /\ NonBlank(cfg.totp)
    /\ ~AuthTotpResolved
    /\ \E i \in TokenCalls : out[i].tag = "approval"

\* the one-time code the run resolved, and the secret it would derive one from:
\* the totp_secret, else the legacy secret
ResolvedCode == First(<<args.totp, env.GROWW_TOTP>>)
SecretUsed ==
    LET totp_secret == First(<<cfg.totp_secret, env.GROWW_TOTP_SECRET>>)
    IN  IF totp_secret # None THEN totp_secret
        ELSE First(<<cfg.secret, env.GROWW_API_SECRET>>)

\* there is no code and the secret cannot be turned into one
NoCodeFromSecret ==
    /\ ResolvedCode = None
    /\ SecretUsed # None
    /\ ~Base32Ok(SecretUsed)

\* C18: in groww_auth and groww_smoketest, when the TOTP flow is attempted and
\* the totp_secret cannot be turned into a code: under --flow auto the run falls
\* back to the approval flow (it goes on to the approval branch, every call of
\* get_access_token is one with api_key+secret and no totp, a run that gets
\* past the branch has made that call, and the `totp` of the secrets file is
\* not used); under --flow totp the run ends with an error and
\* get_access_token is never called.
C18_InvalidSecret ==
    (prog \in {"auth", "smoketest"} /\ pc \notin {"start", "totp"} /\ TotpAttempted
       /\ NoCodeFromSecret) =>
      /\ args.flow = "auto" =>
           /\ FellBack
           /\ ApprovalUsed
           /\ \A i \in TokenCalls :
                out[i].tag = "approval" /\ out[i].totp = None /\ out[i].secret # None
           /\ pc \notin {"approval", "exit"} => Cardinality(TokenCalls) = 1
           /\ \A j \in Notes : out[j].text # <<"totp">>
      /\ args.flow = "totp" =>
           /\ pc = "exit"
           /\ exitmsg \in {<<"Invalid totp_secret">>, <<"Missing totp_token">>}
           /\ TokenCalls = {}
           /\ ~FellBack

\* groww_smoketest under --flow auto with a totp_secret that is no Base32: the
\* run fell back and called get_access_token with the approval credentials
C18_Witness ==
    /\ prog = "smoketest"
    /\ args.flow = "auto"
    /\ NoCodeFromSecret
    /\ FellBack
    /\ \E i \in TokenCalls : out[i].tag = "approval"

\* groww_auth under --flow totp ended on the invalid totp_secret
C18_WitnessTotp ==
    /\ prog = "auth"
    /\ args.flow = "totp"
    /\ NoCodeFromSecret
    /\ exitmsg = <<"Invalid totp_secret">>

\* the credential sets of groww_cli, from what the user gave
CliApprovalResolved ==
    /\ AnyNonBlank(<<args.approval_api_key, cfg.approval_api_key, cfg.api_key,
                     env.GROWW_APPROVAL_API_KEY, env.GROWW_API_KEY>>)
    /\ AnyNonBlank(<<args.approval_secret, cfg.approval_secret, cfg.secret,
                     env.GROWW_APPROVAL_SECRET, env.GROWW_API_SECRET>>)
CliTotpResolved ==
    /\ AnyNonBlank(<<args.totp_token, cfg.totp_token, env.GROWW_TOTP_TOKEN>>)
    /\ \/ AnyNonBlank(<<args.totp, env.GROWW_TOTP>>)
       \/ AnyNonBlank(<<cfg.totp_secret, env.GROWW_TOTP_SECRET>>)

FlowAsks == Asks("Choose flow")
ApprovalAnswers == {<<"1">>, <<"approval">>}
TotpAnswers == {<<"2">>, <<"totp">>}
Answered(i) == Strip(out[i].text) \in ApprovalAnswers \cup TotpAnswers

\* C19: in groww_cli with --flow auto the approval flow is used whenever both
\* approval credentials are resolved, whatever TOTP credentials exist; without
\* a question the TOTP flow is used only, and then always, when the approval
\* set is incomplete and a totp_token plus a one-time code or totp_secret are
\* resolved; the user is asked to choose only, and then always, when neither
\* set is complete; an answer (stripped) other than 1, approval, 2, totp is
\* followed by the question again, one of these ends the asking and names the
\* flow; get_access_token is called by the flow so chosen.
C19_CliAutoFlow ==
    (prog = "cli" /\ args.flow = "auto" /\ pc # "start") =>
      LET chosen == pc # "choose"
      IN  /\ chosen =>
                /\ loc.flow \in {"approval", "totp"}
                /\ \A i \in TokenCalls : out[i].tag = loc.flow
          /\ CliApprovalResolved =>
                /\ FlowAsks = {}
                /\ chosen => loc.flow = "approval"
          /\ (~CliApprovalResolved /\ CliTotpResolved) =>
                /\ FlowAsks = {}
                /\ chosen => loc.flow = "totp"
          /\ (chosen /\ loc.flow = "totp" /\ FlowAsks = {}) =>
                ~CliApprovalResolved /\ CliTotpResolved
          /\ FlowAsks # {} => ~CliApprovalResolved /\ ~CliTotpResolved
          /\ (chosen /\ ~CliApprovalResolved /\ ~CliTotpResolved) =>
                \E i \in FlowAsks :
                  /\ \A j \in FlowAsks : j <= i
                  /\ Strip(out[i].text) \in ApprovalAnswers => loc.flow = "approval"
                  /\ Strip(out[i].text) \in TotpAnswers => loc.flow = "totp"
                  /\ Answered(i)
          /\ \A i \in FlowAsks :
                IF Answered(i) THEN chosen /\ \A j \in FlowAsks : j <= i
                ELSE ~chosen \/ \E j \in FlowAsks : j > i

\* neither set complete: the first answer was refused, the second, " 2", chose
\* the TOTP flow, which called get_access_token
C19_Witness ==
    /\ prog = "cli"
    /\ args.flow = "auto"
    /\ ~CliApprovalResolved /\ ~CliTotpResolved
    /\ Cardinality(FlowAsks) = 2
    /\ \E i \in FlowAsks : out[i].text = <<WS, "2">>
    /\ \E i \in TokenCalls : out[i].tag = "totp"

\* the errors of a missing credential, per flow
MissingTotp == {<<"Missing totp_token">>, <<"Missing totp/totp_secret">>}
MissingApproval == {<<"Missing approval_api_key">>, <<"Missing approval_secret">>}
EmptyToken == <<"Got an empty access token">>

\* C20: in groww_auth a run that ends with an error (missing totp_token, missing
\* one-time code, missing approval api_key or secret, invalid totp_secret under
\* --flow totp, empty token returned) has written no .access_token and printed
\* no token; when a credential of a flow is missing, get_access_token has not
\* been called with the credentials of that flow; the invalid totp_secret ends
\* the run only under --flow totp, and a returned token that is empty always
\* ends it.
C20_ErrorLeavesNothing ==
    /\ (prog = "auth" /\ pc = "exit") =>
         /\ exitmsg \in MissingTotp \cup MissingApproval
                          \cup {<<"Invalid totp_secret">>, EmptyToken}
         /\ Writes = {}
         /\ file = None
         /\ \A i \in Prints : out[i].tag \notin {"token", "Access token"}
         /\ NewClients = {}
         /\ exitmsg \in MissingTotp => \A i \in TokenCalls : out[i].tag # "totp"
         /\ exitmsg \in MissingApproval => \A i \in TokenCalls : out[i].tag # "approval"
         /\ exitmsg = <<"Invalid totp_secret">> => args.flow = "totp" /\ TokenCalls = {}
         /\ exitmsg = EmptyToken =>
              TokenCalls # {} /\ ~Truthy(NormalizeAccessToken(loc.access_token_obj))
    /\ (prog = "auth" /\ pc = "done") =>
         Truthy(NormalizeAccessToken(loc.access_token_obj))

\* get_access_token was called and returned an empty token: the run ended with
\* the error
C20_Witness ==
    /\ prog = "auth"
    /\ pc = "exit"
    /\ exitmsg = EmptyToken
    /\ TokenCalls # {}
    /\ file = None

\* the prints of the token or of its preview
TokenPrints == {i \in Prints : out[i].tag \in {"token", "Access token"}}

\* C21: whenever groww_auth constructs the client, writes .access_token or
\* prints the token, the access token extracted from the response is not empty
\* after stripping; a run that got an empty or blank token has ended with the
\* 'Got an empty access token' error.
C21_TokenNotBlank ==
    prog = "auth" =>
      /\ (NewClients # {} \/ Writes # {} \/ TokenPrints # {}) =>
           Strip(NormalizeAccessToken(loc.access_token_obj)) # Empty
      /\ (pc \in {"done", "exit"} /\ loc.access_token_obj.kind # "none"
            /\ Strip(NormalizeAccessToken(loc.access_token_obj)) = Empty) =>
           pc = "exit" /\ exitmsg = EmptyToken

\* the handler that ran last is search_instruments, and it called
\* get_all_instruments
Searched(o) == o # <<>> /\ o[1].ev = "handler" /\ o[1].tag = "search_instruments"
Fetching(o) == \E i \in 1..Len(o) : o[i].ev = "client" /\ o[i].text = <<"get_all_instruments">>

\* C22: over a series of search_instruments calls in one process
\* get_all_instruments returns at most once: once a table is cached, every
\* later search, whatever the token and also with a blank query, makes no
\* fetch, answers from that table and leaves it as it is; a search with nothing
\* cached fetches, and when the fetch raises the cache stays empty.
C22_FetchOnce ==
    [][prog = "gradio" =>
         /\ Len(fetched') <= 1
         /\ (fetched' # <<>>) <=> (INSTRUMENT_CACHE' # None)
         /\ INSTRUMENT_CACHE # None =>
              /\ INSTRUMENT_CACHE' = INSTRUMENT_CACHE
              /\ fetched' = fetched
              /\ ~Fetching(out')
              /\ (Searched(out') /\ Truthy(token_state)) =>
                   result' \in {SearchResult(INSTRUMENT_CACHE, out'[1].text, limit) :
                                  limit \in Limits}
         /\ (INSTRUMENT_CACHE = None /\ Searched(out') /\ Truthy(token_state)) =>
              /\ Fetching(out')
              /\ result' = ErrorResult("raised") => INSTRUMENT_CACHE' = None
              /\ result' # ErrorResult("raised") => INSTRUMENT_CACHE' \in Tables
      ]_vars

\* a table fetched by one token answered, without a fetch, the blank query of a
\* session with another token
C22_Witness ==
    /\ prog = "gradio"
    /\ Len(fetched) = 1
    /\ Truthy(token_state) /\ token_state # fetched[1]
    /\ Searched(out) /\ ~Fetching(out)
    /\ Strip(out[1].text) = Empty
    /\ result = ErrorResult("Enter a search term.")

\* the menu rounds of a run, and the events of the round that starts at i
MenuAsks == Asks(MenuPrompt)
RoundOf(j) == CHOOSE i \in MenuAsks : i <= j /\ \A k \in MenuAsks : k <= j => k <= i
CallsOf(i) == {j \in ClientCalls : j > i /\ RoundOf(j) = i}
Choice(i) == MenuLower(Strip(out[i].text))
IsLast(i) == \A k \in MenuAsks : k <= i

====
